---- MODULE Spec2Model ----
(***************************************************************************)
(* Model of the geometry-to-artwork pipeline of city_map_poster:           *)
(*   data_processing.get_crop_limits / fetch_and_process_map_data,         *)
(*   svg_renderer.transform_coordinates / add_roads_by_type,               *)
(*   rendering.get_edge_colors_by_type / get_edge_widths_by_type,          *)
(*   utils.parse_aspect_ratio,                                             *)
(*   the layer stacking of rendering.render_poster_from_processed_data and *)
(*   svg_renderer.render_svg_poster_from_processed_data,                   *)
(*   create_map_poster.main and themes.load_theme,                         *)
(*   cache.cache_set and the four caching lookups.                         *)
(*                                                                         *)
(* Floating-point numbers are modelled as exact rationals <<n, d>> with    *)
(* d > 0 in lowest terms; "equal within tolerance" in the specification    *)
(* therefore reads as exact equality here.  The IEEE special values that   *)
(* a division by zero yields for numpy scalars are modelled explicitly.    *)
(***************************************************************************)
EXTENDS Integers, Sequences, FiniteSets, TLC

VARIABLES
    pc,                 \* position of the modelled run
    np_scalars,         \* TRUE iff the graph's node x/y are numpy float64 scalars
    G_nodes,            \* projected graph: sequence of node positions [x, y]
    figsize,            \* (width, height) in inches from parse_aspect_ratio
    crop,               \* result of get_crop_limits
    svg_in,             \* coordinate array handed to transform_coordinates
    svg_out,            \* result of transform_coordinates
    G_edges,            \* projected graph: edge data dicts in G.edges order
    theme,              \* role -> colour
    road_types,         \* add_roads_by_type: tier -> [edges, color, width]
    edge_i,             \* add_roads_by_type: number of edges already classified
    edge_colors,        \* result of get_edge_colors_by_type
    edge_widths,        \* result of get_edge_widths_by_type (tenths)
    railways,           \* rail feature table as fetched
    normal_rail_proj,   \* session entry 'normal_rail_proj'
    subway_lines_proj,  \* session entry 'subway_lines_proj'
    water_polys_proj,   \* session entry 'water_polys_proj'
    parks_polys_proj,   \* session entry 'parks_polys_proj'
    ax,                 \* raster emitter: the artists of the axes, in draw order
    svg,                \* vector emitter: the children of the document root
    args,               \* main: the parsed command line
    theme_files,        \* the themes directory: theme name -> state of its file
    work,               \* expensive operations performed so far, by kind
    fetch_log,          \* outcome of each of the four fetch steps
    processed_data,     \* main: the session dict of fetch_and_process_map_data
    themes_to_process,  \* main: the theme names of the batch
    theme_i,            \* main: number of themes the loop has completed
    generated_files,    \* main: generated_files, by theme name
    errors,             \* error messages printed so far
    exit_status,        \* process exit status, once exited
    cache,              \* the city's cache directory: key -> state of its file
    last_call,          \* the latest call of a caching lookup and its outcome
    geo_coords,         \* main: (latitude, longitude, state_province), once known
    point_coords,       \* fetch_and_process_map_data: the centre point fetched around
    ratio_str,          \* parse_aspect_ratio: the argument, split at ':'
    ratio_result,       \* parse_aspect_ratio: the pair returned or the error raised
    invocations,        \* concurrent runs: each one's position in fetch_graph
    city_char_count,    \* len(city) of the session
    raster_overlay,     \* raster emitter: the fade images and the title font size
    svg_overlay,        \* vector emitter: gradients, fade rects, title font size
    path_in,            \* vector emitter: the table or graph whose paths are written
    path_out            \* vector emitter: the groups written, each path with its coords

vars == <<pc, np_scalars, G_nodes, figsize, crop, svg_in, svg_out, G_edges, theme,
          road_types, edge_i, edge_colors, edge_widths, railways,
          normal_rail_proj, subway_lines_proj,
          water_polys_proj, parks_polys_proj, ax, svg,
          args, theme_files, work, fetch_log, processed_data,
          themes_to_process, theme_i, generated_files, errors, exit_status,
          cache, last_call, geo_coords, point_coords, ratio_str, ratio_result,
          invocations, city_char_count, raster_overlay, svg_overlay,
          path_in, path_out>>

cropVars == <<np_scalars, G_nodes, figsize, crop, svg_in, svg_out>>
roadVars == <<G_edges, theme, road_types, edge_i, edge_colors, edge_widths>>
railVars == <<railways, normal_rail_proj, subway_lines_proj>>
renderVars == <<water_polys_proj, parks_polys_proj, ax, svg>>
mainVars == <<args, theme_files, work, fetch_log, processed_data,
              themes_to_process, theme_i, generated_files, errors, exit_status>>

----------------------------------------------------------------------------
(* Bounds of the model *)

MaxCoord == 2       \* node coordinates are 0..MaxCoord, in units of 100 m
MaxNodes == 2       \* number of graph nodes
MaxRatio == 3       \* components of the --ratio string are 1..MaxRatio
MaxEdges == 2       \* number of graph edges
MaxRail == 2        \* number of rows of the rail feature table

\* Python's None, and a value that is not None
None == [some |-> FALSE]
Some(v) == [some |-> TRUE, v |-> v]

----------------------------------------------------------------------------
(* Exact rational arithmetic standing for Python float arithmetic *)

RECURSIVE GCD(_, _)
GCD(a, b) == IF b = 0 THEN a ELSE GCD(b, a % b)

Abs(n) == IF n < 0 THEN -n ELSE n

Norm(n, d) ==
    LET s == IF d < 0 THEN -1 ELSE 1
        g == GCD(Abs(n), Abs(d))
    IN  <<(s * n) \div g, (s * d) \div g>>

R(n) == <<n, 1>>
RAdd(a, b) == Norm(a[1] * b[2] + b[1] * a[2], a[2] * b[2])
RSub(a, b) == Norm(a[1] * b[2] - b[1] * a[2], a[2] * b[2])
RMul(a, b) == Norm(a[1] * b[1], a[2] * b[2])
RDiv(a, b) == Norm(a[1] * b[2], a[2] * b[1])      \* b # 0
RLt(a, b) == a[1] * b[2] < b[1] * a[2]
RLe(a, b) == a[1] * b[2] <= b[1] * a[2]
RIsZero(a) == a[1] = 0

\* int(x): truncation toward zero
PyInt(a) == IF a[1] >= 0 THEN a[1] \div a[2] ELSE -((-a[1]) \div a[2])

\* The true division a / b.  For Python floats a zero divisor raises
\* ZeroDivisionError; for numpy float64 scalars (np) it yields inf or nan.
TrueDiv(a, b, np) ==
    IF ~RIsZero(b) THEN [k |-> "fin", v |-> RDiv(a, b)]
    ELSE IF ~np THEN [k |-> "raise", v |-> R(0)]
    ELSE IF RIsZero(a) THEN [k |-> "nan", v |-> R(0)]
    ELSE [k |-> "inf", v |-> R(0)]             \* a > 0 wherever it is used

\* c > d and c < d for a quotient c and a finite d (nan compares false)
ExtGt(c, d) == c.k = "inf" \/ (c.k = "fin" /\ RLt(d, c.v))
ExtLt(c, d) == c.k = "fin" /\ RLt(c.v, d)

RECURSIVE SeqMin(_), SeqMax(_)
SeqMin(s) == IF Len(s) = 1 THEN s[1]
             ELSE LET m == SeqMin(Tail(s)) IN IF s[1] < m THEN s[1] ELSE m
SeqMax(s) == IF Len(s) = 1 THEN s[1]
             ELSE LET m == SeqMax(Tail(s)) IN IF s[1] > m THEN s[1] ELSE m

----------------------------------------------------------------------------
(* utils.parse_aspect_ratio on the two numeric components of "w:h" *)

base_size == 16

parse_aspect_ratio(width_ratio, height_ratio) ==
    IF width_ratio >= height_ratio
    THEN IF width_ratio = 0
         THEN [err |-> TRUE, size |-> <<R(0), R(0)>>]
         ELSE [err |-> FALSE,
               size |-> <<R(base_size),
                          RMul(R(base_size), Norm(height_ratio, width_ratio))>>]
    ELSE IF height_ratio = 0
         THEN [err |-> TRUE, size |-> <<R(0), R(0)>>]
         ELSE [err |-> FALSE,
               size |-> <<RMul(R(base_size), Norm(width_ratio, height_ratio)),
                          R(base_size)>>]

----------------------------------------------------------------------------
(* data_processing.get_crop_limits *)

NoCrop == [status |-> "none", xlim |-> <<R(0), R(0)>>, ylim |-> <<R(0), R(0)>>]

Xs(G) == [i \in 1..Len(G) |-> G[i].x]
Ys(G) == [i \in 1..Len(G) |-> G[i].y]
MinX(G) == R(SeqMin(Xs(G)))
MaxX(G) == R(SeqMax(Xs(G)))
MinY(G) == R(SeqMin(Ys(G)))
MaxY(G) == R(SeqMax(Ys(G)))
XRange(G) == RSub(MaxX(G), MinX(G))
YRange(G) == RSub(MaxY(G), MinY(G))
CenterX(G) == RDiv(RAdd(MinX(G), MaxX(G)), R(2))
CenterY(G) == RDiv(RAdd(MinY(G), MaxY(G)), R(2))

\* Faulty variant: the crop is anchored on the centre's left instead of centred on it
crop_horizontally_offcentre(center_x, y_range, desired_aspect, miny, maxy) ==
    LET desired_x_range == RMul(y_range, desired_aspect)
    IN  [status |-> "ok",
         xlim |-> <<RSub(center_x, desired_x_range), center_x>>,
         ylim |-> <<miny, maxy>>]

\* "Too wide, need to crop horizontally"
crop_horizontally(center_x, y_range, desired_aspect, miny, maxy) ==
    LET desired_x_range == RMul(y_range, desired_aspect)
    IN  [status |-> "ok",
         xlim |-> <<RSub(center_x, RDiv(desired_x_range, R(2))),
                    RAdd(center_x, RDiv(desired_x_range, R(2)))>>,
         ylim |-> <<miny, maxy>>]

\* Faulty variant: the y-range is multiplied by the aspect instead of divided by it
crop_vertically_multiplied(center_y, x_range, desired_aspect, minx, maxx) ==
    LET desired_y_range == RMul(x_range, desired_aspect)
    IN  [status |-> "ok",
         xlim |-> <<minx, maxx>>,
         ylim |-> <<RSub(center_y, RDiv(desired_y_range, R(2))),
                    RAdd(center_y, RDiv(desired_y_range, R(2)))>>]

\* "Too tall, need to crop vertically"
crop_vertically(center_y, x_range, desired_aspect, minx, maxx) ==
    LET desired_y_range == RDiv(x_range, desired_aspect)
    IN  [status |-> "ok",
         xlim |-> <<minx, maxx>>,
         ylim |-> <<RSub(center_y, RDiv(desired_y_range, R(2))),
                    RAdd(center_y, RDiv(desired_y_range, R(2)))>>]

get_crop_limits(G, fig, np) ==
    LET desired_aspect == RDiv(fig[1], fig[2])
        current_aspect == TrueDiv(XRange(G), YRange(G), np)
    IN  IF current_aspect.k = "raise"
        THEN [status |-> "ZeroDivisionError",
              xlim |-> <<R(0), R(0)>>, ylim |-> <<R(0), R(0)>>]
        ELSE IF ExtGt(current_aspect, desired_aspect)
        THEN crop_horizontally(CenterX(G), YRange(G), desired_aspect,
                               MinY(G), MaxY(G))
        ELSE IF ExtLt(current_aspect, desired_aspect)
        THEN crop_vertically(CenterY(G), XRange(G), desired_aspect,
                             MinX(G), MaxX(G))
        ELSE [status |-> "ok", xlim |-> <<MinX(G), MaxX(G)>>,
              ylim |-> <<MinY(G), MaxY(G)>>]

----------------------------------------------------------------------------
(* svg_renderer.transform_coordinates and the canvas size of
   render_svg_poster_from_processed_data *)

dpi == 300

CanvasWidth(aspect_ratio) == PyInt(RMul(aspect_ratio[1], R(dpi)))
CanvasHeight(aspect_ratio) == PyInt(RMul(aspect_ratio[2], R(dpi)))

NoSvg == [status |-> "none", pts |-> <<>>]

\* Faulty variant: the vertical axis is not flipped
transform_point_noflip(c, xlim, ylim, x_scale, y_scale, height) ==
    [x |-> RMul(RSub(c.x, xlim[1]), x_scale),
     y |-> RMul(RSub(c.y, ylim[1]), y_scale)]

transform_point(c, xlim, ylim, x_scale, y_scale, height) ==
    [x |-> RMul(RSub(c.x, xlim[1]), x_scale),
     y |-> RSub(R(height), RMul(RSub(c.y, ylim[1]), y_scale))]

transform_coordinates(coords, xlim, ylim, width, height, np) ==
    LET x_scale == TrueDiv(R(width), RSub(xlim[2], xlim[1]), np)
        y_scale == TrueDiv(R(height), RSub(ylim[2], ylim[1]), np)
    IN  IF x_scale.k = "raise" \/ y_scale.k = "raise"
        THEN [status |-> "ZeroDivisionError", pts |-> <<>>]
        ELSE IF x_scale.k # "fin" \/ y_scale.k # "fin"
        THEN [status |-> "non_finite", pts |-> <<>>]
        ELSE [status |-> "ok",
              pts |-> [i \in 1..Len(coords) |->
                         transform_point(coords[i], xlim, ylim,
                                         x_scale.v, y_scale.v, height)]]

----------------------------------------------------------------------------
(* Crop-window specification: one session, then vector projections *)

Coords == 0..MaxCoord
Positions == [x : Coords, y : Coords]
NodeSeqs == UNION {[1..n -> Positions] : n \in 1..MaxNodes}
Ratios == (1..MaxRatio) \X (1..MaxRatio)

RPoint(p) == [x |-> R(p.x), y |-> R(p.y)]

\* The corner ring of the crop window, and the straight segments that
\* add_roads_by_type builds between two node positions.
CropCorners(c) ==
    <<[x |-> c.xlim[1], y |-> c.ylim[1]], [x |-> c.xlim[2], y |-> c.ylim[1]],
      [x |-> c.xlim[2], y |-> c.ylim[2]], [x |-> c.xlim[1], y |-> c.ylim[2]]>>

CoordArrays(G, c) ==
    {CropCorners(c)} \cup
    {<<RPoint(G[u]), RPoint(G[v])>> : u \in 1..Len(G), v \in {Len(G)}}

IdleRoads ==
    /\ G_edges = <<>>
    /\ theme = None
    /\ road_types = None
    /\ edge_i = 0
    /\ edge_colors = None
    /\ edge_widths = None

IdleRail ==
    /\ railways = None
    /\ normal_rail_proj = None
    /\ subway_lines_proj = None

IdleRender ==
    /\ water_polys_proj = None
    /\ parks_polys_proj = None
    /\ ax = None
    /\ svg = None

cacheVars == <<cache, last_call>>

IdleCache ==
    /\ cache = <<>>
    /\ last_call = None

pointVars == <<geo_coords, point_coords>>

IdlePoint ==
    /\ geo_coords = None
    /\ point_coords = None

ratioVars == <<ratio_str, ratio_result>>

IdleRatio ==
    /\ ratio_str = <<>>
    /\ ratio_result = None

raceVars == <<invocations>>

IdleRace == invocations = <<>>

overlayVars == <<city_char_count, raster_overlay, svg_overlay>>

IdleOverlay ==
    /\ city_char_count = 0
    /\ raster_overlay = None
    /\ svg_overlay = None

pathVars == <<path_in, path_out>>

IdlePaths ==
    /\ path_in = <<>>
    /\ path_out = <<>>

NoWork == [geocoding |-> 0, osm_fetch |-> 0, projection |-> 0]

IdleMain ==
    /\ args = None
    /\ theme_files = <<>>
    /\ work = NoWork
    /\ fetch_log = <<>>
    /\ processed_data = None
    /\ themes_to_process = <<>>
    /\ theme_i = 0
    /\ generated_files = <<>>
    /\ errors = <<>>
    /\ exit_status = None

IdleCrop ==
    /\ np_scalars = FALSE
    /\ G_nodes = <<>>
    /\ figsize = <<R(1), R(1)>>
    /\ crop = NoCrop
    /\ svg_in = <<>>
    /\ svg_out = NoSvg

InitCrop ==
    /\ pc = "start"
    /\ np_scalars \in BOOLEAN
    /\ G_nodes \in NodeSeqs
    /\ \E r \in Ratios : figsize = parse_aspect_ratio(r[1], r[2]).size
    /\ crop = NoCrop
    /\ svg_in = <<>>
    /\ svg_out = NoSvg
    /\ IdleRoads
    /\ IdleRail
    /\ IdleRender
    /\ IdleMain
    /\ IdleCache
    /\ IdlePoint
    /\ IdleRatio
    /\ IdleRace
    /\ IdleOverlay
    /\ IdlePaths

\* fetch_and_process_map_data, lines 176-177: the session's crop window
GetCropLimits ==
    /\ pc = "start"
    /\ crop' = get_crop_limits(G_nodes, figsize, np_scalars)
    /\ pc' = IF crop'.status = "ok" THEN "session" ELSE "failed"
    /\ UNCHANGED <<np_scalars, G_nodes, figsize, svg_in, svg_out>>
    /\ UNCHANGED <<roadVars, railVars, renderVars, mainVars, cacheVars,
                   pointVars, ratioVars, raceVars,
                   overlayVars, pathVars>>

\* A call of transform_coordinates made while rendering the vector poster, on
\* the segment from some node to the last one or on the window's corner ring
TransformCoordinates ==
    /\ pc = "session"
    /\ \E coords \in CoordArrays(G_nodes, crop) :
         /\ svg_in' = coords
         /\ svg_out' = transform_coordinates(coords, crop.xlim, crop.ylim,
                            CanvasWidth(figsize), CanvasHeight(figsize),
                            np_scalars)
    /\ pc' = IF svg_out'.status = "ZeroDivisionError" THEN "failed" ELSE "projected"
    /\ UNCHANGED <<np_scalars, G_nodes, figsize, crop>>
    /\ UNCHANGED <<roadVars, railVars, renderVars, mainVars, cacheVars,
                   pointVars, ratioVars, raceVars,
                   overlayVars, pathVars>>

NextCrop == GetCropLimits \/ TransformCoordinates

SpecCrop == InitCrop /\ [][NextCrop]_vars

----------------------------------------------------------------------------
(* Properties of the crop window and of the projection (SpecCrop) *)

PositiveExtent(G) == ~RIsZero(XRange(G)) /\ ~RIsZero(YRange(G))
CropW == RSub(crop.xlim[2], crop.xlim[1])
CropH == RSub(crop.ylim[2], crop.ylim[1])
DesiredAspect == RDiv(figsize[1], figsize[2])
FullX == <<MinX(G_nodes), MaxX(G_nodes)>>
FullY == <<MinY(G_nodes), MaxY(G_nodes)>>

\* C1: for every positive target ratio and every extent of positive width and
\* height, the returned crop window has width / height equal to the target
\* ratio and neither dimension exceeds the full extent's.
C1_CropMatchesRatioWithinExtent ==
    (crop.status = "ok" /\ PositiveExtent(G_nodes)) =>
        /\ RLt(R(0), CropH)
        /\ RMul(CropW, figsize[2]) = RMul(CropH, figsize[1])
        /\ RLe(CropW, XRange(G_nodes))
        /\ RLe(CropH, YRange(G_nodes))

C1_Witness ==
    /\ crop.status = "ok"
    /\ PositiveExtent(G_nodes)
    /\ RLt(CropH, YRange(G_nodes))
    /\ figsize[1] # figsize[2]

\* C2: exactly one dimension is cropped and the crop stays centred: a wider
\* extent keeps the y-range and gets an x-range of width height*target around
\* the x-centre, a taller one keeps the x-range and gets a y-range of width
\* width/target around the y-centre, an equal one keeps both ranges.
C2_CropOneDimensionCentred ==
    (crop.status = "ok" /\ ~RIsZero(YRange(G_nodes))) =>
        LET current == RDiv(XRange(G_nodes), YRange(G_nodes))
        IN  /\ RLt(DesiredAspect, current) =>
                  /\ crop.ylim = FullY
                  /\ CropW = RMul(YRange(G_nodes), DesiredAspect)
                  /\ RAdd(crop.xlim[1], crop.xlim[2]) = RAdd(FullX[1], FullX[2])
            /\ RLt(current, DesiredAspect) =>
                  /\ crop.xlim = FullX
                  /\ CropH = RDiv(XRange(G_nodes), DesiredAspect)
                  /\ RAdd(crop.ylim[1], crop.ylim[2]) = RAdd(FullY[1], FullY[2])
            /\ current = DesiredAspect =>
                  crop.xlim = FullX /\ crop.ylim = FullY

\* an extent twice as wide as high under a 1:1 target (200 m x 100 m)
C2_Witness ==
    /\ crop.status = "ok"
    /\ figsize[1] = figsize[2]
    /\ RLt(R(0), YRange(G_nodes))
    /\ XRange(G_nodes) = RMul(R(2), YRange(G_nodes))
    /\ crop.ylim = FullY
    /\ CropW = YRange(G_nodes)
    /\ crop.xlim[1] = RAdd(FullX[1], RDiv(YRange(G_nodes), R(2)))

\* C3: a node extent of zero width or zero height makes the crop solver fail;
\* no crop window is returned for it.
C3_DegenerateExtentIsFatal ==
    (pc # "start" /\ (RIsZero(XRange(G_nodes)) \/ RIsZero(YRange(G_nodes)))) =>
        crop.status = "ZeroDivisionError"

\* C4: with at least two distinct node positions the returned crop window has
\* strictly positive width and height, so the projection never divides by a
\* zero range.
C4_CropNonDegenerate ==
    (crop.status = "ok" /\ \E i, j \in 1..Len(G_nodes) : G_nodes[i] # G_nodes[j]) =>
        /\ RLt(R(0), CropW)
        /\ RLt(R(0), CropH)
        /\ svg_out.status \in {"none", "ok"}

\* C9: a point on the crop window's y minimum maps to canvas y = height, one on
\* the y maximum to 0, one on the x minimum to 0 and one on the x maximum to
\* width, so the window's corners map to the canvas corners.
C9_ProjectionOrientation ==
    svg_out.status = "ok" =>
        \A i \in 1..Len(svg_in) :
            /\ svg_in[i].y = crop.ylim[1] => svg_out.pts[i].y = R(CanvasHeight(figsize))
            /\ svg_in[i].y = crop.ylim[2] => svg_out.pts[i].y = R(0)
            /\ svg_in[i].x = crop.xlim[1] => svg_out.pts[i].x = R(0)
            /\ svg_in[i].x = crop.xlim[2] => svg_out.pts[i].x = R(CanvasWidth(figsize))

C9_Witness ==
    /\ svg_out.status = "ok"
    /\ svg_in = CropCorners(crop)
    /\ CanvasWidth(figsize) # CanvasHeight(figsize)
    /\ svg_out.pts = <<[x |-> R(0), y |-> R(CanvasHeight(figsize))],
                       [x |-> R(CanvasWidth(figsize)), y |-> R(CanvasHeight(figsize))],
                       [x |-> R(CanvasWidth(figsize)), y |-> R(0)],
                       [x |-> R(0), y |-> R(0)]>>

----------------------------------------------------------------------------
(* Road classification: svg_renderer.add_roads_by_type and
   rendering.get_edge_colors_by_type / get_edge_widths_by_type.
   An edge's data dict is [highway |-> h] where h is absent, a string or a
   list of strings; stroke widths are in tenths. *)

Absent == [kind |-> "absent", s |-> "", l |-> <<>>]
Str(v) == [kind |-> "str", s |-> v, l |-> <<>>]
List(vs) == [kind |-> "list", s |-> "", l |-> vs]

Tiers == <<"motorway", "primary", "secondary", "tertiary", "residential", "other">>
TierSet == {Tiers[k] : k \in 1..Len(Tiers)}

\* highway = data.get('highway', 'unclassified'); a list gives its first element
svg_highway(data) ==
    LET highway == IF data.highway.kind = "absent" THEN Str("unclassified")
                   ELSE data.highway
    IN  IF highway.kind = "list"
        THEN IF highway.l # <<>> THEN highway.l[1] ELSE "unclassified"
        ELSE highway.s

\* Faulty variant: a list gives its last element
colors_highway_last(data) ==
    LET highway == IF data.highway.kind = "absent" THEN Str("unclassified")
                   ELSE data.highway
    IN  IF highway.kind = "list"
        THEN IF highway.l # <<>> THEN highway.l[Len(highway.l)] ELSE "unclassified"
        ELSE highway.s

colors_highway(data) ==
    LET highway == IF data.highway.kind = "absent" THEN Str("unclassified")
                   ELSE data.highway
    IN  IF highway.kind = "list"
        THEN IF highway.l # <<>> THEN highway.l[1] ELSE "unclassified"
        ELSE highway.s

widths_highway(data) ==
    LET highway == IF data.highway.kind = "absent" THEN Str("unclassified")
                   ELSE data.highway
    IN  IF highway.kind = "list"
        THEN IF highway.l # <<>> THEN highway.l[1] ELSE "unclassified"
        ELSE highway.s

\* road_types as created at the top of add_roads_by_type
new_road_types(th) ==
    [t \in TierSet |->
        CASE t = "motorway"    -> [edges |-> <<>>, color |-> th.road_motorway, width |-> 12]
          [] t = "primary"     -> [edges |-> <<>>, color |-> th.road_primary, width |-> 10]
          [] t = "secondary"   -> [edges |-> <<>>, color |-> th.road_secondary, width |-> 8]
          [] t = "tertiary"    -> [edges |-> <<>>, color |-> th.road_tertiary, width |-> 6]
          [] t = "residential" -> [edges |-> <<>>, color |-> th.road_residential, width |-> 4]
          [] t = "other"       -> [edges |-> <<>>, color |-> th.road_default, width |-> 4]]

append_to(rt, t, geom) == [rt EXCEPT ![t].edges = Append(@, geom)]

\* Faulty variant: independent ifs, the else belonging to the last one only
classify_road_fallthrough(rt, highway, geom) ==
    LET r1 == IF highway \in {"motorway", "motorway_link"}
              THEN append_to(rt, "motorway", geom) ELSE rt
        r2 == IF highway \in {"trunk", "trunk_link", "primary", "primary_link"}
              THEN append_to(r1, "primary", geom) ELSE r1
        r3 == IF highway \in {"secondary", "secondary_link"}
              THEN append_to(r2, "secondary", geom) ELSE r2
        r4 == IF highway \in {"tertiary", "tertiary_link"}
              THEN append_to(r3, "tertiary", geom) ELSE r3
    IN  IF highway \in {"residential", "living_street", "unclassified"}
        THEN append_to(r4, "residential", geom)
        ELSE append_to(r4, "other", geom)

\* "Classify road": the if/elif chain appending the geometry to one bucket
classify_road(rt, highway, geom) ==
    IF highway \in {"motorway", "motorway_link"}
    THEN append_to(rt, "motorway", geom)
    ELSE IF highway \in {"trunk", "trunk_link", "primary", "primary_link"}
    THEN append_to(rt, "primary", geom)
    ELSE IF highway \in {"secondary", "secondary_link"}
    THEN append_to(rt, "secondary", geom)
    ELSE IF highway \in {"tertiary", "tertiary_link"}
    THEN append_to(rt, "tertiary", geom)
    ELSE IF highway \in {"residential", "living_street", "unclassified"}
    THEN append_to(rt, "residential", geom)
    ELSE append_to(rt, "other", geom)

edge_color(highway, th) ==
    IF highway \in {"motorway", "motorway_link"} THEN th.road_motorway
    ELSE IF highway \in {"trunk", "trunk_link", "primary", "primary_link"}
    THEN th.road_primary
    ELSE IF highway \in {"secondary", "secondary_link"} THEN th.road_secondary
    ELSE IF highway \in {"tertiary", "tertiary_link"} THEN th.road_tertiary
    ELSE IF highway \in {"residential", "living_street", "unclassified"}
    THEN th.road_residential
    ELSE th.road_default

\* Faulty variant: trunk roads are drawn with the motorway width
edge_width_trunk_as_motorway(highway) ==
    IF highway \in {"motorway", "motorway_link", "trunk", "trunk_link"} THEN 12
    ELSE IF highway \in {"primary", "primary_link"} THEN 10
    ELSE IF highway \in {"secondary", "secondary_link"} THEN 8
    ELSE IF highway \in {"tertiary", "tertiary_link"} THEN 6
    ELSE 4

edge_width(highway) ==
    IF highway \in {"motorway", "motorway_link"} THEN 12
    ELSE IF highway \in {"trunk", "trunk_link", "primary", "primary_link"} THEN 10
    ELSE IF highway \in {"secondary", "secondary_link"} THEN 8
    ELSE IF highway \in {"tertiary", "tertiary_link"} THEN 6
    ELSE 4

get_edge_colors_by_type(G, th) ==
    [i \in 1..Len(G) |-> edge_color(colors_highway(G[i]), th)]

get_edge_widths_by_type(G) ==
    [i \in 1..Len(G) |-> edge_width(widths_highway(G[i]))]

----------------------------------------------------------------------------
(* Road specification: one graph and theme, rendered by the raster emitter
   and then by the vector emitter *)

HighwayStrings ==
    {"motorway", "motorway_link", "trunk", "trunk_link", "primary",
     "primary_link", "secondary", "secondary_link", "tertiary",
     "tertiary_link", "residential", "living_street", "unclassified",
     "other", "service", "footway"}
ListStrings == {"motorway", "footway"}
HighwayLists == UNION {[1..n -> ListStrings] : n \in 0..2}
HighwayAttrs ==
    {Absent} \cup {Str(v) : v \in HighwayStrings} \cup {List(l) : l \in HighwayLists}
EdgeSeqs == UNION {[1..n -> [highway : HighwayAttrs]] : n \in 0..MaxEdges}

\* the built-in fallback of load_theme
FallbackTheme ==
    [bg |-> "#FFFFFF", text |-> "#000000", gradient_color |-> "#FFFFFF",
     water |-> "#C0C0C0", parks |-> "#F0F0F0", railway |-> "#DEE200",
     road_motorway |-> "#0A0A0A", road_primary |-> "#1A1A1A",
     road_secondary |-> "#2A2A2A", road_tertiary |-> "#3A3A3A",
     road_residential |-> "#4A4A4A", road_default |-> "#3A3A3A"]

\* a theme file giving every road role its own colour
FileTheme ==
    [bg |-> "#000000", text |-> "#FFFFFF", gradient_color |-> "#000000",
     water |-> "#0000C0", parks |-> "#00C000", railway |-> "#C0C000",
     road_motorway |-> "#F00000", road_primary |-> "#E00000",
     road_secondary |-> "#D00000", road_tertiary |-> "#C00000",
     road_residential |-> "#B00000", road_default |-> "#A00000"]

Themes == {FallbackTheme, FileTheme}

InitRoads ==
    /\ pc = "raster"
    /\ G_edges \in EdgeSeqs
    /\ theme \in Themes
    /\ road_types = None
    /\ edge_i = 0
    /\ edge_colors = None
    /\ edge_widths = None
    /\ IdleCrop
    /\ IdleRail
    /\ IdleRender
    /\ IdleMain
    /\ IdleCache
    /\ IdlePoint
    /\ IdleRatio
    /\ IdleRace
    /\ IdleOverlay
    /\ IdlePaths

\* add_roads_by_type, lines 292-299
AddRoadsByTypeBegin ==
    /\ pc = "vector"
    /\ ~road_types.some
    /\ road_types' = Some(new_road_types(theme))
    /\ edge_i' = 0
    /\ UNCHANGED <<pc, G_edges, theme, edge_colors, edge_widths>>
    /\ UNCHANGED <<cropVars, railVars, renderVars, mainVars, cacheVars,
                   pointVars, ratioVars, raceVars,
                   overlayVars, pathVars>>

\* add_roads_by_type, one iteration of the loop of lines 301-329; the edge's
\* geometry is identified by the edge's position in G.edges
AddRoadsByTypeClassify ==
    /\ pc = "vector"
    /\ road_types.some
    /\ edge_i < Len(G_edges)
    /\ road_types' = Some(classify_road(road_types.v,
                                        svg_highway(G_edges[edge_i + 1]),
                                        edge_i + 1))
    /\ edge_i' = edge_i + 1
    /\ UNCHANGED <<pc, G_edges, theme, edge_colors, edge_widths>>
    /\ UNCHANGED <<cropVars, railVars, renderVars, mainVars, cacheVars,
                   pointVars, ratioVars, raceVars,
                   overlayVars, pathVars>>

\* render_poster_from_processed_data, line 278
GetEdgeColorsByType ==
    /\ pc = "raster"
    /\ ~edge_colors.some
    /\ edge_colors' = Some(get_edge_colors_by_type(G_edges, theme))
    /\ UNCHANGED <<pc, G_edges, theme, road_types, edge_i, edge_widths>>
    /\ UNCHANGED <<cropVars, railVars, renderVars, mainVars, cacheVars,
                   pointVars, ratioVars, raceVars,
                   overlayVars, pathVars>>

\* render_poster_from_processed_data, line 279
GetEdgeWidthsByType ==
    /\ pc = "raster"
    /\ edge_colors.some
    /\ ~edge_widths.some
    /\ edge_widths' = Some(get_edge_widths_by_type(G_edges))
    /\ pc' = "vector"
    /\ UNCHANGED <<G_edges, theme, road_types, edge_i, edge_colors>>
    /\ UNCHANGED <<cropVars, railVars, renderVars, mainVars, cacheVars,
                   pointVars, ratioVars, raceVars,
                   overlayVars, pathVars>>

NextRoads ==
    \/ AddRoadsByTypeBegin
    \/ AddRoadsByTypeClassify
    \/ GetEdgeColorsByType
    \/ GetEdgeWidthsByType

SpecRoads == InitRoads /\ [][NextRoads]_vars

----------------------------------------------------------------------------
(* Properties of the road classification (SpecRoads) *)

\* the tiers whose bucket holds edge i, with the position it holds there
Placements(i) ==
    {<<t, k>> \in TierSet \X (1..Len(G_edges)) :
        k <= Len(road_types.v[t].edges) /\ road_types.v[t].edges[k] = i}
TierOf(i) == (CHOOSE p \in Placements(i) : TRUE)[1]

\* C5: every classified edge, whatever its highway attribute and wherever it
\* comes in the iteration, is in exactly one of the six tiers; edges with the
\* same attribute are in the same tier; a tier name classifies as itself.
C5_RoadClassificationTotalIdempotent ==
    road_types.some =>
        /\ DOMAIN road_types.v = TierSet
        /\ Cardinality(TierSet) = 6
        /\ \A i \in 1..edge_i : Cardinality(Placements(i)) = 1
        /\ \A i, j \in 1..edge_i :
              G_edges[i].highway = G_edges[j].highway => TierOf(i) = TierOf(j)
        /\ \A i \in 1..edge_i :
              (G_edges[i].highway.kind = "str" /\ G_edges[i].highway.s \in TierSet)
                  => TierOf(i) = G_edges[i].highway.s

C5_Witness ==
    /\ road_types.some
    /\ edge_i = 2
    /\ G_edges[1].highway = Str("other")
    /\ G_edges[2].highway = Str("primary")
    /\ road_types.v["other"].edges = <<1>>
    /\ road_types.v["primary"].edges = <<2>>

\* the table of the claim
TierTable(v) ==
    CASE v \in {"motorway", "motorway_link"} -> "motorway"
      [] v \in {"trunk", "trunk_link", "primary", "primary_link"} -> "primary"
      [] v \in {"secondary", "secondary_link"} -> "secondary"
      [] v \in {"tertiary", "tertiary_link"} -> "tertiary"
      [] v \in {"residential", "living_street", "unclassified"} -> "residential"
      [] OTHER -> "other"
ClaimedTier(h) ==
    IF h.kind = "absent" THEN "residential"
    ELSE IF h.kind = "list"
    THEN IF h.l = <<>> THEN "residential" ELSE TierTable(h.l[1])
    ELSE TierTable(h.s)
RoleColor(t) ==
    CASE t = "motorway" -> theme.road_motorway
      [] t = "primary" -> theme.road_primary
      [] t = "secondary" -> theme.road_secondary
      [] t = "tertiary" -> theme.road_tertiary
      [] t = "residential" -> theme.road_residential
      [] t = "other" -> theme.road_default

\* C6: the tier is decided by the highway attribute: first element of a list,
\* residential when absent or an empty list, and otherwise by the table
\* motorway(_link), trunk/primary(_link), secondary(_link), tertiary(_link),
\* residential/living_street/unclassified, anything else -> other; in the
\* vector emitter's buckets and in the raster emitter's colours alike.
C6_RoadTierTable ==
    /\ road_types.some =>
          \A i \in 1..edge_i :
              /\ Placements(i) # {}
              /\ \A p \in Placements(i) : p[1] = ClaimedTier(G_edges[i].highway)
    /\ edge_colors.some =>
          \A i \in 1..Len(G_edges) :
              edge_colors.v[i] = RoleColor(ClaimedTier(G_edges[i].highway))

C6_Witness ==
    /\ road_types.some
    /\ edge_colors.some
    /\ edge_i = 2
    /\ G_edges[1].highway = List(<<"motorway", "footway">>)
    /\ G_edges[2].highway = List(<<>>)
    /\ road_types.v["motorway"].edges = <<1>>
    /\ road_types.v["residential"].edges = <<2>>
    /\ edge_colors.v = <<theme.road_motorway, theme.road_residential>>

TierWidth(t) ==
    CASE t = "motorway" -> 12
      [] t = "primary" -> 10
      [] t = "secondary" -> 8
      [] t = "tertiary" -> 6
      [] t = "residential" -> 4
      [] t = "other" -> 4

\* C10: for every edge the raster emitter's colour and width are the colour and
\* width of the tier the vector emitter puts the edge in (1.2, 1.0, 0.8, 0.6,
\* 0.4, 0.4), so both emitters draw the same number of road paths per tier.
C10_EmittersClassifyRoadsAlike ==
    (road_types.some /\ edge_i = Len(G_edges)
        /\ edge_colors.some /\ edge_widths.some) =>
        /\ \A i \in 1..Len(G_edges) :
              /\ Placements(i) # {}
              /\ edge_colors.v[i] = road_types.v[TierOf(i)].color
              /\ edge_widths.v[i] = road_types.v[TierOf(i)].width
              /\ edge_widths.v[i] = TierWidth(TierOf(i))
        /\ theme = FileTheme =>
              \A t \in TierSet :
                  Cardinality({i \in 1..Len(G_edges) :
                                  edge_colors.v[i] = road_types.v[t].color})
                      = Len(road_types.v[t].edges)

C10_Witness ==
    /\ road_types.some
    /\ edge_i = Len(G_edges)
    /\ edge_i = 2
    /\ edge_colors.some
    /\ edge_widths.some
    /\ edge_widths.v = <<10, 4>>
    /\ G_edges[1].highway = Str("trunk")
    /\ G_edges[2].highway = Str("service")
    /\ theme = FileTheme

----------------------------------------------------------------------------
(* Rail partition: fetch_and_process_map_data, lines 153-173, and
   osm_data.project_and_filter_features.  A feature table is
   [has_subway |-> whether a 'subway' column exists, rows |-> its rows];
   a row is [idx, geom_type, railway, subway], idx being its index label and
   subway = "nan" a missing value. *)

LineTypes == {"LineString", "MultiLineString"}

\* features[features.geometry.type.isin(geometry_types)]
type_isin(tbl, geometry_types) ==
    [tbl EXCEPT !.rows = SelectSeq(@, LAMBDA r : r.geom_type \in geometry_types)]

empty(tbl) == tbl.rows = <<>>

index(tbl) == {tbl.rows[k].idx : k \in 1..Len(tbl.rows)}

\* Faulty variant: the 'subway' column is not consulted
subway_mask_railway_only(tbl, r) ==
    r.railway \in {"subway", "light_rail"}

\* railway.isin(['subway', 'light_rail']) | (railways_line.get('subway') == 'yes');
\* without the column, get returns None and None == 'yes' is False
subway_mask(tbl, r) ==
    \/ r.railway \in {"subway", "light_rail"}
    \/ IF tbl.has_subway THEN r.subway = "yes" ELSE FALSE

\* Faulty variant: nothing is dropped
drop_nothing(tbl, labels) == tbl

\* DataFrame.drop(labels): removes every row carrying one of the labels
drop(tbl, labels) ==
    [tbl EXCEPT !.rows = SelectSeq(@, LAMBDA r : r.idx \notin labels)]

\* the projection changes coordinates only; rows and attributes are kept
project_and_filter_features(features, geometry_types) ==
    IF ~features.some \/ empty(features.v) THEN None
    ELSE LET filtered == type_isin(features.v, geometry_types)
         IN  IF empty(filtered) THEN None ELSE Some(filtered)

\* the pair (normal_rail_proj, subway_lines_proj) of the session
partition_railways(rw) ==
    IF rw.some /\ ~empty(rw.v)
    THEN LET railways_line == type_isin(rw.v, LineTypes)
         IN  IF ~empty(railways_line)
             THEN LET subway_lines ==
                          [railways_line EXCEPT !.rows =
                              SelectSeq(@, LAMBDA r : subway_mask(railways_line, r))]
                      normal_rail == drop(railways_line, index(subway_lines))
                  IN  <<IF ~empty(normal_rail)
                        THEN project_and_filter_features(Some(normal_rail), LineTypes)
                        ELSE None,
                        IF ~empty(subway_lines)
                        THEN project_and_filter_features(Some(subway_lines), LineTypes)
                        ELSE None>>
             ELSE <<None, None>>
    ELSE <<None, None>>

----------------------------------------------------------------------------
(* Rail specification: one fetched rail table, partitioned once *)

GeomTypes == {"LineString", "MultiLineString", "Polygon"}
RailwayValues == {"rail", "subway", "light_rail"}
SubwayValues == {"yes", "no", "nan"}

\* tables of n rows whose index labels are 1..n (labels are unique)
RailTables ==
    UNION {
      {[has_subway |-> TRUE,
        rows |-> [k \in 1..n |-> [idx |-> k, geom_type |-> a[k][1],
                                  railway |-> a[k][2], subway |-> a[k][3]]]] :
          a \in [1..n -> GeomTypes \X RailwayValues \X SubwayValues]}
      \cup
      {[has_subway |-> FALSE,
        rows |-> [k \in 1..n |-> [idx |-> k, geom_type |-> a[k][1],
                                  railway |-> a[k][2], subway |-> "nan"]]] :
          a \in [1..n -> GeomTypes \X RailwayValues]}
      : n \in 0..MaxRail}

InitRail ==
    /\ pc = "fetched"
    /\ railways \in {None} \cup {Some(t) : t \in RailTables}
    /\ normal_rail_proj = None
    /\ subway_lines_proj = None
    /\ IdleCrop
    /\ IdleRoads
    /\ IdleRender
    /\ IdleMain
    /\ IdleCache
    /\ IdlePoint
    /\ IdleRatio
    /\ IdleRace
    /\ IdleOverlay
    /\ IdlePaths

\* fetch_and_process_map_data, lines 153-173
PartitionRailways ==
    /\ pc = "fetched"
    /\ LET parts == partition_railways(railways)
       IN  /\ normal_rail_proj' = parts[1]
           /\ subway_lines_proj' = parts[2]
    /\ pc' = "session"
    /\ UNCHANGED railways
    /\ UNCHANGED <<cropVars, roadVars, renderVars, mainVars, cacheVars,
                   pointVars, ratioVars, raceVars,
                   overlayVars, pathVars>>

NextRail == PartitionRailways

SpecRail == InitRail /\ [][NextRail]_vars

----------------------------------------------------------------------------
(* Properties of the rail partition (SpecRail) *)

RowsOf(opt) == IF opt.some THEN {opt.v.rows[k] : k \in 1..Len(opt.v.rows)} ELSE {}
LineRows == {r \in RowsOf(railways) : r.geom_type \in LineTypes}
Occurrences(opt, r) ==
    IF opt.some THEN Cardinality({k \in 1..Len(opt.v.rows) : opt.v.rows[k] = r})
    ELSE 0

\* C7: after the partition every line-geometry rail feature is in exactly one
\* of the normal-rail set and the subway/light-rail set, once, and the two sets
\* hold nothing else.
C7_RailPartitionExhaustiveDisjoint ==
    pc = "session" =>
        /\ \A r \in LineRows :
              Occurrences(normal_rail_proj, r) + Occurrences(subway_lines_proj, r) = 1
        /\ RowsOf(normal_rail_proj) \cup RowsOf(subway_lines_proj) = LineRows
        /\ RowsOf(normal_rail_proj) \cap RowsOf(subway_lines_proj) = {}

\* one feature tagged railway=subway and one tagged railway=rail
C7_Witness ==
    /\ pc = "session"
    /\ Cardinality(LineRows) = 2
    /\ \E r \in LineRows : r.railway = "subway" /\ RowsOf(subway_lines_proj) = {r}
    /\ \E r \in LineRows : r.railway = "rail" /\ RowsOf(normal_rail_proj) = {r}

\* C8: a line-geometry rail feature is in the subway/light-rail set iff its
\* railway attribute is subway or light_rail or its subway attribute is "yes",
\* also when the table has no subway column; every other one is in the normal
\* set.
C8_SubwayMembership ==
    pc = "session" =>
        \A r \in LineRows :
            LET is_subway ==
                    \/ r.railway \in {"subway", "light_rail"}
                    \/ (railways.v.has_subway /\ r.subway = "yes")
            IN  /\ r \in RowsOf(subway_lines_proj) <=> is_subway
                /\ r \in RowsOf(normal_rail_proj) <=> ~is_subway

\* a subway=yes feature of railway=rail next to a plain one, and a table
\* without the column
C8_Witness ==
    /\ pc = "session"
    /\ railways.some
    /\ \/ /\ railways.v.has_subway
          /\ \E r \in RowsOf(subway_lines_proj) : r.railway = "rail" /\ r.subway = "yes"
          /\ \E r \in RowsOf(normal_rail_proj) : r.railway = "rail" /\ r.subway = "nan"
       \/ /\ ~railways.v.has_subway
          /\ \E r \in RowsOf(subway_lines_proj) : r.railway = "light_rail"
          /\ \E r \in RowsOf(normal_rail_proj) : r.railway = "rail"

----------------------------------------------------------------------------
(* The two emitters on one session.  A feature row carries, besides its
   index label and geometry type, the number of parts of its geometry
   (1 for a simple geometry); the feature provider delivers no empty
   geometry.  An element of the vector document is [tag, id, children],
   id = "" standing for an element without id attribute. *)

MaxFeatures == 1    \* rows of a water, parks or rail table of the emitters' session
MaxParts == 2       \* parts of a multi-part geometry

Element(tag, id, children) == [tag |-> tag, id |-> id, children |-> children]

RECURSIVE Flatten(_)
Flatten(ss) == IF ss = <<>> THEN <<>> ELSE Head(ss) \o Flatten(Tail(ss))

\* create_svg_root: the root's first child is the background rectangle
create_svg_root(th) == <<Element("rect", "background", <<>>)>>

\* add_defs_section: a defs element holding the two gradient paints
add_defs_section(doc, th) ==
    Append(doc, Element("defs", "",
                        <<Element("linearGradient", "fadeGradientBottom", <<>>),
                          Element("linearGradient", "fadeGradientTop", <<>>)>>))

\* Faulty variant: the parts of a MultiPolygon are not numbered
polygon_paths_unnumbered(layer_id, feature) ==
    IF feature.geom_type = "MultiPolygon"
    THEN [k \in 1..feature.parts |->
            Element("path", layer_id \o "-" \o ToString(feature.idx), <<>>)]
    ELSE IF feature.geom_type = "Polygon"
    THEN <<Element("path", layer_id \o "-" \o ToString(feature.idx), <<>>)>>
    ELSE <<>>

\* add_polygon_layer, the body of the loop over gdf.iterrows()
polygon_paths(layer_id, feature) ==
    IF feature.geom_type = "MultiPolygon"
    THEN [k \in 1..feature.parts |->
            Element("path", layer_id \o "-" \o ToString(feature.idx)
                                     \o "-" \o ToString(k - 1), <<>>)]
    ELSE IF feature.geom_type = "Polygon"
    THEN <<Element("path", layer_id \o "-" \o ToString(feature.idx), <<>>)>>
    ELSE <<>>

\* Faulty variant: the group is created for an absent or empty table too
add_polygon_layer_unguarded(doc, gdf, layer_id) ==
    LET rows == IF gdf.some THEN gdf.v.rows ELSE <<>>
    IN  Append(doc, Element("g", layer_id,
                   Flatten([k \in 1..Len(rows) |-> polygon_paths(layer_id, rows[k])])))

add_polygon_layer(doc, gdf, layer_id) ==
    IF ~gdf.some \/ empty(gdf.v) THEN doc
    ELSE Append(doc, Element("g", layer_id,
                   Flatten([k \in 1..Len(gdf.v.rows) |->
                               polygon_paths(layer_id, gdf.v.rows[k])])))

\* add_linestring_layer, the body of the loop over gdf.iterrows()
linestring_paths(layer_id, feature) ==
    IF feature.geom_type = "MultiLineString"
    THEN [k \in 1..feature.parts |->
            Element("path", layer_id \o "-" \o ToString(feature.idx)
                                     \o "-" \o ToString(k - 1), <<>>)]
    ELSE IF feature.geom_type = "LineString"
    THEN <<Element("path", layer_id \o "-" \o ToString(feature.idx), <<>>)>>
    ELSE <<>>

add_linestring_layer(doc, gdf, layer_id) ==
    IF ~gdf.some \/ empty(gdf.v) THEN doc
    ELSE Append(doc, Element("g", layer_id,
                   Flatten([k \in 1..Len(gdf.v.rows) |->
                               linestring_paths(layer_id, gdf.v.rows[k])])))

\* add_roads_by_type, the loop over G_proj.edges of lines 301-329
RECURSIVE group_roads(_, _, _)
group_roads(rt, G, i) ==
    IF i > Len(G) THEN rt
    ELSE group_roads(classify_road(rt, svg_highway(G[i]), i), G, i + 1)

\* add_roads_by_type, one iteration of the loop over road_types.items()
road_layer(doc, road_type, data) ==
    IF data.edges = <<>> THEN doc
    ELSE Append(doc, Element("g", "roads-" \o road_type,
                   [idx \in 1..Len(data.edges) |->
                       Element("path", "road-" \o road_type
                                       \o "-" \o ToString(idx - 1), <<>>)]))

\* Faulty variant: the tiers are emitted from "other" up to "motorway"
RECURSIVE road_layers_reversed(_, _, _)
road_layers_reversed(doc, rt, k) ==
    IF k > Len(Tiers) THEN doc
    ELSE road_layers_reversed(
             road_layer(doc, Tiers[Len(Tiers) + 1 - k], rt[Tiers[Len(Tiers) + 1 - k]]),
             rt, k + 1)

\* add_roads_by_type, the loop over road_types.items(), in insertion order
RECURSIVE road_layers(_, _, _)
road_layers(doc, rt, k) ==
    IF k > Len(Tiers) THEN doc
    ELSE road_layers(road_layer(doc, Tiers[k], rt[Tiers[k]]), rt, k + 1)

add_roads_by_type(doc, G, th) ==
    road_layers(doc, group_roads(new_road_types(th), G, 1), 1)

\* "Layer 6: Gradient fades" of render_svg_poster_from_processed_data
add_gradient_group(doc) ==
    Append(doc, Element("g", "gradients",
                        <<Element("rect", "gradient-bottom", <<>>),
                          Element("rect", "gradient-top", <<>>)>>))

add_text_layer(doc) ==
    Append(doc, Element("g", "labels",
                        <<Element("text", "city-name", <<>>),
                          Element("line", "divider-line", <<>>),
                          Element("text", "location", <<>>),
                          Element("text", "coordinates", <<>>),
                          Element("text", "attribution", <<>>)>>))

\* the document root's children built by render_svg_poster_from_processed_data
render_svg_poster_from_processed_data(water, parks, G, normal_rail, subway_lines, th) ==
    LET d1 == add_defs_section(create_svg_root(th), th)
        d2 == add_polygon_layer(d1, water, "water")
        d3 == add_polygon_layer(d2, parks, "parks")
        d4 == add_roads_by_type(d3, G, th)
        d5 == add_linestring_layer(d4, normal_rail, "railways")
        d6 == add_linestring_layer(d5, subway_lines, "subway")
    IN  add_text_layer(add_gradient_group(d6))

\* An artist of the raster axes
Artist(layer, kind, zorder) == [layer |-> layer, kind |-> kind, zorder |-> zorder]

\* GeoDataFrame.plot(ax=ax, zorder=z), guarded by "is not None and not empty"
plot(artists, gdf, layer, zorder) ==
    IF gdf.some /\ ~empty(gdf.v)
    THEN Append(artists, Artist(layer, "collection", zorder))
    ELSE artists

\* for coll in ax.collections: coll.set_zorder(5)
set_zorder(artists, zorder) ==
    [i \in 1..Len(artists) |->
        IF artists[i].kind = "collection"
        THEN [artists[i] EXCEPT !.zorder = zorder]
        ELSE artists[i]]

\* the artists added by render_poster_from_processed_data, in the order
\* of the calls; ox.plot_graph draws the edges as one line collection
render_poster_from_processed_data(water, parks, G, normal_rail, subway_lines, th) ==
    LET a1 == plot(<<>>, water, "water", 1)
        a2 == plot(a1, parks, "parks", 2)
        a3 == plot(a2, normal_rail, "railways", 8)
        a4 == plot(a3, subway_lines, "subway", 9)
        a5 == Append(a4, Artist("roads", "collection", 1))
        a6 == set_zorder(a5, 5)
    IN  a6 \o <<Artist("gradients", "image", 10), Artist("gradients", "image", 10),
                Artist("labels", "text", 11), Artist("labels", "line", 11),
                Artist("labels", "text", 11), Artist("labels", "text", 11),
                Artist("labels", "text", 11)>>

----------------------------------------------------------------------------
(* Emitter specification: one session, rendered by the raster emitter and
   then by the vector emitter *)

PolygonTypes == {"Polygon", "MultiPolygon"}
Parts(geom_type) == IF geom_type \in {"MultiPolygon", "MultiLineString"}
                    THEN MaxParts ELSE 1

\* water / parks tables as fetched: index labels 1..n, any geometry type
FeatureTables ==
    UNION {{[has_subway |-> FALSE,
             rows |-> [k \in 1..n |-> [idx |-> k, geom_type |-> a[k],
                                       parts |-> Parts(a[k])]]] :
               a \in [1..n -> PolygonTypes \cup {"LineString"}]} : n \in 0..MaxFeatures}

\* rail tables as fetched, without a 'subway' column: up to MaxFeatures + 1
\* rows of one line geometry type, so that both parts can be non-empty
RailFeatureTables ==
    UNION {{[has_subway |-> FALSE,
             rows |-> [k \in 1..n |-> [idx |-> k, geom_type |-> g,
                                       parts |-> Parts(g),
                                       railway |-> a[k], subway |-> "nan"]]] :
               a \in [1..n -> {"rail", "subway"}], g \in LineTypes} :
           n \in 0..(MaxFeatures + 1)}

Fetched(tables) == {None} \cup {Some(t) : t \in tables}

RenderHighways == {Str("motorway"), Str("residential"), Str("footway")}
RenderEdgeSeqs == UNION {[1..n -> [highway : RenderHighways]] : n \in 1..MaxEdges}

\* the session as fetch_and_process_map_data returns it
InitRender ==
    /\ pc = "session"
    /\ \E w \in Fetched(FeatureTables) :
         water_polys_proj = project_and_filter_features(w, PolygonTypes)
    /\ \E p \in Fetched(FeatureTables) :
         parks_polys_proj = project_and_filter_features(p, PolygonTypes)
    /\ railways \in Fetched(RailFeatureTables)
    /\ normal_rail_proj = partition_railways(railways)[1]
    /\ subway_lines_proj = partition_railways(railways)[2]
    /\ G_edges \in RenderEdgeSeqs
    /\ theme \in Themes
    /\ road_types = None
    /\ edge_i = 0
    /\ edge_colors = None
    /\ edge_widths = None
    /\ ax = None
    /\ svg = None
    /\ IdleCrop
    /\ IdleMain
    /\ IdleCache
    /\ IdlePoint
    /\ IdleRatio
    /\ IdleRace
    /\ IdleOverlay
    /\ IdlePaths

\* rendering.render_poster_from_processed_data on the session
RenderPoster ==
    /\ pc = "session"
    /\ ax' = Some(render_poster_from_processed_data(
                      water_polys_proj, parks_polys_proj, G_edges,
                      normal_rail_proj, subway_lines_proj, theme))
    /\ pc' = "raster_saved"
    /\ UNCHANGED <<water_polys_proj, parks_polys_proj, svg>>
    /\ UNCHANGED <<cropVars, roadVars, railVars, mainVars, cacheVars,
                   pointVars, ratioVars, raceVars,
                   overlayVars, pathVars>>

\* svg_renderer.render_svg_poster_from_processed_data on the session
RenderSvgPoster ==
    /\ pc = "raster_saved"
    /\ svg' = Some(render_svg_poster_from_processed_data(
                       water_polys_proj, parks_polys_proj, G_edges,
                       normal_rail_proj, subway_lines_proj, theme))
    /\ pc' = "vector_saved"
    /\ UNCHANGED <<water_polys_proj, parks_polys_proj, ax>>
    /\ UNCHANGED <<cropVars, roadVars, railVars, mainVars, cacheVars,
                   pointVars, ratioVars, raceVars,
                   overlayVars, pathVars>>

NextRender == RenderPoster \/ RenderSvgPoster

SpecRender == InitRender /\ [][NextRender]_vars

----------------------------------------------------------------------------
(* Properties of the two emitters (SpecRender) *)

LayerRank(layer) ==
    CASE layer = "water" -> 1 [] layer = "parks" -> 2 [] layer = "roads" -> 3
      [] layer = "railways" -> 4 [] layer = "subway" -> 5
      [] layer = "gradients" -> 6 [] layer = "labels" -> 7 [] OTHER -> 0

RoadGroupIds == {"roads-" \o Tiers[k] : k \in 1..Len(Tiers)}
LayerOfGroup(id) == IF id \in RoadGroupIds THEN "roads" ELSE id

\* artist j is painted over artist i: higher z-order, ties by draw order
PaintedOver(artists, j, i) ==
    \/ artists[j].zorder > artists[i].zorder
    \/ artists[j].zorder = artists[i].zorder /\ j > i

\* C11: in the raster emitter (final z-order, ties by draw order) and in the
\* vector document (child order) alike, water lies below parks below all
\* roads below normal rail below subway below the fades below the labels.
C11_EmittersStackAlike ==
    /\ ax.some =>
         \A i, j \in 1..Len(ax.v) :
            LayerRank(ax.v[i].layer) < LayerRank(ax.v[j].layer)
               => PaintedOver(ax.v, j, i)
    /\ svg.some =>
         \A i, j \in 1..Len(svg.v) :
            (/\ LayerRank(LayerOfGroup(svg.v[i].id)) > 0
             /\ LayerRank(LayerOfGroup(svg.v[i].id))
                   < LayerRank(LayerOfGroup(svg.v[j].id)))
               => i < j

GroupOrder ==
    <<"water", "parks", "roads-motorway", "roads-primary", "roads-secondary",
      "roads-tertiary", "roads-residential", "roads-other", "railways",
      "subway", "gradients", "labels">>
GroupIds == {GroupOrder[k] : k \in 1..Len(GroupOrder)}
GroupPosition(id) == CHOOSE k \in 1..Len(GroupOrder) : GroupOrder[k] = id

HasGroup(doc, id) == \E i \in 1..Len(doc) : doc[i].tag = "g" /\ doc[i].id = id

\* C12: the root's children are the background rectangle, the gradient
\* paint definitions, and then layer groups in the order water, parks,
\* roads-motorway .. roads-other, railways, subway, gradients, labels;
\* absent layers are left out and the present ones are never reordered.
C12_DocumentOrder ==
    svg.some =>
        /\ Len(svg.v) >= 2
        /\ svg.v[1].tag = "rect" /\ svg.v[1].id = "background"
        /\ svg.v[2].tag = "defs"
        /\ \A k \in 1..Len(svg.v[2].children) :
              svg.v[2].children[k].tag = "linearGradient"
        /\ \A i \in 3..Len(svg.v) : svg.v[i].tag = "g" /\ svg.v[i].id \in GroupIds
        /\ \A i, j \in 3..Len(svg.v) :
              i < j => GroupPosition(svg.v[i].id) < GroupPosition(svg.v[j].id)
        /\ HasGroup(svg.v, "gradients") /\ HasGroup(svg.v, "labels")

C12_Witness ==
    /\ svg.some
    /\ HasGroup(svg.v, "water") /\ HasGroup(svg.v, "parks")
    /\ HasGroup(svg.v, "roads-motorway") /\ HasGroup(svg.v, "roads-other")
    /\ HasGroup(svg.v, "railways") /\ HasGroup(svg.v, "subway")

FeatureGroupIds == {"water", "parks", "railways", "subway"} \cup RoadGroupIds

\* whether the session holds a feature for the layer group
LayerHasFeature(id) ==
    CASE id = "water" -> water_polys_proj.some
      [] id = "parks" -> parks_polys_proj.some
      [] id = "railways" -> normal_rail_proj.some
      [] id = "subway" -> subway_lines_proj.some
      [] OTHER -> \E i \in 1..Len(G_edges) :
                     "roads-" \o ClaimedTier(G_edges[i].highway) = id

\* C13: the vector document holds no empty feature group: every water,
\* parks, railways, subway or roads-<tier> group has at least one path, and
\* such a group is present exactly if the session has a feature for it.
C13_NoEmptyFeatureGroup ==
    svg.some =>
        /\ \A i \in 1..Len(svg.v) :
              svg.v[i].id \in FeatureGroupIds =>
                 /\ svg.v[i].children # <<>>
                 /\ \A k \in 1..Len(svg.v[i].children) :
                       svg.v[i].children[k].tag = "path"
        /\ \A id \in FeatureGroupIds : HasGroup(svg.v, id) <=> LayerHasFeature(id)

\* a single motorway edge and no water, parks or rail
C13_Witness ==
    /\ svg.some
    /\ Len(G_edges) = 1 /\ G_edges[1].highway = Str("motorway")
    /\ ~water_polys_proj.some /\ ~parks_polys_proj.some
    /\ ~normal_rail_proj.some /\ ~subway_lines_proj.some
    /\ \A id \in FeatureGroupIds : HasGroup(svg.v, id) <=> id = "roads-motorway"
    /\ \E i \in 1..Len(svg.v) :
          svg.v[i].id = "roads-motorway" /\ Len(svg.v[i].children) = 1

\* index labels and enumeration indices occurring in the model
FeatureIndices == 0..(MaxFeatures + MaxEdges + 1)
PartIndices == 0..MaxParts

\* the identifiers {layer-id}-{feature-index}[-{part-index}]
PathIds(layer_id) ==
    {layer_id \o "-" \o ToString(f) : f \in FeatureIndices}
    \cup {layer_id \o "-" \o ToString(f) \o "-" \o ToString(q) :
             f \in FeatureIndices, q \in PartIndices}

\* C14: every path of a water, parks, railways, subway or road-tier group
\* has the identifier {layer-id}-{feature-index}[-{part-index}], layer-id
\* being the id attribute of the group that contains the path.
C14_PathIdsCarryGroupId ==
    svg.some =>
        \A i \in 1..Len(svg.v) :
           svg.v[i].id \in FeatureGroupIds =>
              \A k \in 1..Len(svg.v[i].children) :
                 svg.v[i].children[k].id \in PathIds(svg.v[i].id)

\* the id attributes of a document, element by element and in document order
ElementIds(doc) ==
    Flatten([i \in 1..Len(doc) |->
               <<doc[i].id>> \o
               [k \in 1..Len(doc[i].children) |-> doc[i].children[k].id]])

\* C30: no two elements of a vector document carry the same id: the path
\* ids of all feature groups are pairwise distinct and distinct from the
\* group ids and from the fixed ids (the feature tables of the session have
\* unique index labels).
C30_IdsUnique ==
    svg.some =>
        LET ids == ElementIds(svg.v)
        IN  \A i \in 1..Len(ids) : \A j \in 1..Len(ids) :
               (i # j /\ ids[i] # "") => ids[i] # ids[j]

\* a document with a two-part water polygon, a road and two rail features
C30_Witness ==
    /\ svg.some
    /\ \E i \in 1..Len(svg.v) :
          svg.v[i].id = "water" /\ Len(svg.v[i].children) >= 2
    /\ \E i \in 1..Len(svg.v) :
          svg.v[i].id = "railways" /\ Len(svg.v[i].children) >= 2
    /\ \E i \in 1..Len(svg.v) : svg.v[i].id = "roads-residential"

----------------------------------------------------------------------------
(* create_map_poster.main: one invocation of the command line, from the
   argument checks to the exit.  The run starts with an empty cache, so every
   lookup goes to its provider.  The themes directory holds, per theme name,
   a complete file, a file lacking the key 'water', or no file. *)

MaxThemes == 2      \* theme names known to the run

ThemeName(k) == "theme" \o ToString(k)
ThemeNames == {ThemeName(k) : k \in 1..MaxThemes}
FileStates == {"absent", "complete", "incomplete"}

RequiredKeys ==
    {"bg", "text", "gradient_color", "water", "parks", "railway",
     "road_motorway", "road_primary", "road_secondary", "road_tertiary",
     "road_residential", "road_default"}

\* a theme file without the key 'water'
IncompleteTheme == [k \in DOMAIN FileTheme \ {"water"} |-> FileTheme[k]]

\* themes.get_available_themes: the sorted names of the *.json files
get_available_themes(files) ==
    SelectSeq([k \in 1..MaxThemes |-> ThemeName(k)],
              LAMBDA n : files[n] # "absent")

\* Faulty variant: the fallback lacks the railway colour
load_theme_partial_fallback(theme_name, files) ==
    IF files[theme_name] = "absent"
    THEN [k \in DOMAIN FallbackTheme \ {"railway"} |-> FallbackTheme[k]]
    ELSE IF files[theme_name] = "complete" THEN FileTheme
    ELSE IncompleteTheme

\* themes.load_theme: the embedded default for a missing file, else the
\* file's content as it is
load_theme(theme_name, files) ==
    IF files[theme_name] = "absent" THEN FallbackTheme
    ELSE IF files[theme_name] = "complete" THEN FileTheme
    ELSE IncompleteTheme

\* the theme key get_edge_colors_by_type looks up for an edge
edge_color_key(highway) ==
    IF highway \in {"motorway", "motorway_link"} THEN "road_motorway"
    ELSE IF highway \in {"trunk", "trunk_link", "primary", "primary_link"}
    THEN "road_primary"
    ELSE IF highway \in {"secondary", "secondary_link"} THEN "road_secondary"
    ELSE IF highway \in {"tertiary", "tertiary_link"} THEN "road_tertiary"
    ELSE IF highway \in {"residential", "living_street", "unclassified"}
    THEN "road_residential"
    ELSE "road_default"

\* the theme keys render_poster_from_processed_data subscripts
raster_theme_keys(pd) ==
    {"bg", "gradient_color", "text"}
    \cup (IF pd.water_polys_proj.some THEN {"water"} ELSE {})
    \cup (IF pd.parks_polys_proj.some THEN {"parks"} ELSE {})
    \cup (IF pd.normal_rail_proj.some THEN {"railway"} ELSE {})
    \cup {edge_color_key(colors_highway(pd.G_proj.edges[i])) :
             i \in 1..Len(pd.G_proj.edges)}

\* the theme keys render_svg_poster_from_processed_data subscripts
svg_theme_keys(pd) == RequiredKeys

\* the first KeyError of a render, if any
render_fails(fmt, pd, th) ==
    IF fmt = "svg-layered"
    THEN svg_theme_keys(pd) \ DOMAIN th # {}
    ELSE raster_theme_keys(pd) \ DOMAIN th # {}

\* what the providers hold for the place
WorldNodes == <<[x |-> 0, y |-> 0], [x |-> 2, y |-> 1]>>
WorldEdges == <<[highway |-> Str("motorway")]>>
WorldWater ==
    [has_subway |-> FALSE,
     rows |-> <<[idx |-> 1, geom_type |-> "Polygon", parts |-> 1]>>]
WorldParks ==
    [has_subway |-> FALSE,
     rows |-> <<[idx |-> 1, geom_type |-> "MultiPolygon", parts |-> MaxParts]>>]
WorldRailways ==
    [has_subway |-> FALSE,
     rows |-> <<[idx |-> 1, geom_type |-> "LineString", parts |-> 1,
                 railway |-> "rail", subway |-> "nan"],
                [idx |-> 2, geom_type |-> "LineString", parts |-> 1,
                 railway |-> "subway", subway |-> "nan"]>>]

FeatureSteps == {"water", "parks", "railways"}

\* fetch_features: the data, or None when the provider call raised
fetch_features(outcome, data) == IF outcome = "ok" THEN Some(data) ELSE None

\* fetch_and_process_map_data, lines 140-196, on the fetched layers
process_map_data(water, parks, rw, aspect_ratio) ==
    LET limits == get_crop_limits(WorldNodes, aspect_ratio, FALSE)
    IN  [G_proj |-> [nodes |-> WorldNodes, edges |-> WorldEdges],
         water_polys_proj |-> project_and_filter_features(water, PolygonTypes),
         parks_polys_proj |-> project_and_filter_features(parks, PolygonTypes),
         normal_rail_proj |-> partition_railways(rw)[1],
         subway_lines_proj |-> partition_railways(rw)[2],
         crop_xlim |-> limits.xlim,
         crop_ylim |-> limits.ylim,
         aspect_ratio |-> aspect_ratio]

----------------------------------------------------------------------------
(* Specification of one invocation of main *)

\* values of --lat / --lon: argparse takes any float
Latitudes == {45, 95}
Longitudes == {-120, 200}

\* what the geocoder finds for the place
WorldLocation == [latitude |-> 10, longitude |-> 20, state_province |-> Some("Region")]

\* geopy's Point: a latitude outside [-90, 90] is refused, a longitude is
\* wrapped into [-180, 180]
Point(lat, lon) ==
    [err |-> lat < -90 \/ lat > 90,
     lat |-> lat,
     lon |-> IF lon < -180 \/ lon > 180 THEN ((lon + 180) % 360) - 180 ELSE lon]

\* geocoding.apply_shift: no shift, a ValueError for a specifier that does
\* not match, else geodesic(...).destination((lat, lon), bearing); the
\* destination is modelled one degree to the north
apply_shift(lat, lon, shift_str) ==
    IF shift_str = "none" THEN [err |-> "", lat |-> lat, lon |-> lon]
    ELSE IF shift_str = "invalid"
    THEN [err |-> "Invalid shift format", lat |-> lat, lon |-> lon]
    ELSE IF Point(lat, lon).err
    THEN [err |-> "Latitude must be in the [-90; 90] range", lat |-> lat, lon |-> lon]
    ELSE [err |-> "",
          lat |-> IF lat + 1 > 90 THEN 180 - (lat + 1) ELSE lat + 1,
          lon |-> Point(lat, lon).lon]

ArgSets ==
    [city_country : BOOLEAN,            \* --city and --country both given
     lat : {None} \cup {Some(v) : v \in Latitudes},
     lon : {None} \cup {Some(v) : v \in Longitudes},
     theme : ThemeNames \cup {"all"},
     ratio : {None, Some(<<4, 3>>)},    \* None: a string that is no "w:h"
     shift : {"none", "valid", "invalid"},
     format : {"png", "svg-layered"}]

InitMain ==
    /\ pc = "main"
    /\ args \in ArgSets
    /\ theme_files \in [ThemeNames -> FileStates]
    /\ work = NoWork
    /\ fetch_log = [s \in FeatureSteps \cup {"graph"} |-> "not_run"]
    /\ processed_data = None
    /\ themes_to_process = <<>>
    /\ theme_i = 0
    /\ generated_files = <<>>
    /\ errors = <<>>
    /\ exit_status = None
    /\ IdleCrop
    /\ IdleRoads
    /\ IdleRail
    /\ IdleRender
    /\ IdleCache
    /\ IdlePoint
    /\ IdleRatio
    /\ IdleRace
    /\ IdleOverlay
    /\ IdlePaths

\* print the message and sys.exit(status)
Exit(status, message) ==
    /\ pc' = "exit"
    /\ exit_status' = Some(status)
    /\ errors' = IF message = "" THEN errors ELSE Append(errors, message)

\* main, lines 169-192: the argument checks made before the try block
ValidateArguments ==
    /\ pc = "main"
    /\ LET available_themes == get_available_themes(theme_files)
       IN  IF ~args.city_country
           THEN Exit(1, "--city and --country are required") /\ UNCHANGED themes_to_process
           ELSE IF args.lat.some # args.lon.some
           THEN Exit(1, "Both --lat and --lon must be provided together")
                /\ UNCHANGED themes_to_process
           ELSE IF args.theme = "all"
           THEN /\ themes_to_process' = available_themes
                /\ pc' = "geocode"
                /\ UNCHANGED <<errors, exit_status>>
           ELSE IF \A k \in 1..Len(available_themes) : available_themes[k] # args.theme
           THEN Exit(1, "Theme not found") /\ UNCHANGED themes_to_process
           ELSE /\ themes_to_process' = <<args.theme>>
                /\ pc' = "geocode"
                /\ UNCHANGED <<errors, exit_status>>
    /\ UNCHANGED <<args, theme_files, work, fetch_log, processed_data, theme_i,
                   generated_files>>
    /\ UNCHANGED <<cropVars, roadVars, railVars, renderVars, cacheVars,
                   pointVars, ratioVars, raceVars,
                   overlayVars, pathVars>>

\* Faulty variant: a found location overrides the supplied coordinates
GeocodeOverriding ==
    /\ pc = "geocode"
    /\ work' = [work EXCEPT !.geocoding = @ + 1]
    /\ \E found \in BOOLEAN :
          IF found
          THEN /\ geo_coords' = Some([lat |-> WorldLocation.latitude,
                                      lon |-> WorldLocation.longitude,
                                      state_province |-> WorldLocation.state_province])
               /\ pc' = "ratio"
               /\ UNCHANGED <<errors, exit_status>>
          ELSE IF args.lat.some /\ args.lon.some
          THEN /\ geo_coords' = Some([lat |-> args.lat.v, lon |-> args.lon.v,
                                      state_province |-> None])
               /\ pc' = "ratio"
               /\ UNCHANGED <<errors, exit_status>>
          ELSE /\ Exit(1, "ValueError: Could not find coordinates")
               /\ UNCHANGED geo_coords
    /\ UNCHANGED <<args, theme_files, fetch_log, processed_data,
                   themes_to_process, theme_i, generated_files, point_coords>>
    /\ UNCHANGED <<cropVars, roadVars, railVars, renderVars, cacheVars,
                   ratioVars, raceVars,
                   overlayVars, pathVars>>

\* main, lines 203-214: get_state_province or get_coordinates, each one
\* request to the geocoder; only get_coordinates raises when nothing is found
Geocode ==
    /\ pc = "geocode"
    /\ work' = [work EXCEPT !.geocoding = @ + 1]
    /\ \E found \in BOOLEAN :
          IF args.lat.some /\ args.lon.some
          THEN /\ geo_coords' = Some([lat |-> args.lat.v, lon |-> args.lon.v,
                                  state_province |->
                                     IF found THEN WorldLocation.state_province
                                     ELSE None])
               /\ pc' = "ratio"
               /\ UNCHANGED <<errors, exit_status>>
          ELSE IF found
          THEN /\ geo_coords' = Some([lat |-> WorldLocation.latitude,
                                  lon |-> WorldLocation.longitude,
                                  state_province |-> WorldLocation.state_province])
               /\ pc' = "ratio"
               /\ UNCHANGED <<errors, exit_status>>
          ELSE /\ Exit(1, "ValueError: Could not find coordinates")
               /\ UNCHANGED geo_coords
    /\ UNCHANGED <<args, theme_files, fetch_log, processed_data,
                   themes_to_process, theme_i, generated_files, point_coords>>
    /\ UNCHANGED <<cropVars, roadVars, railVars, renderVars, cacheVars,
                   ratioVars, raceVars,
                   overlayVars, pathVars>>

\* main, lines 217-218
ParseAspectRatio ==
    /\ pc = "ratio"
    /\ IF args.ratio.some /\ ~parse_aspect_ratio(args.ratio.v[1], args.ratio.v[2]).err
       THEN /\ figsize' = parse_aspect_ratio(args.ratio.v[1], args.ratio.v[2]).size
            /\ pc' = "fetch"
            /\ UNCHANGED <<errors, exit_status>>
       ELSE /\ Exit(1, "ValueError: Invalid aspect ratio")
            /\ UNCHANGED figsize
    /\ UNCHANGED <<np_scalars, G_nodes, crop, svg_in, svg_out>>
    /\ UNCHANGED <<args, theme_files, work, fetch_log, processed_data,
                   themes_to_process, theme_i, generated_files>>
    /\ UNCHANGED <<roadVars, railVars, renderVars, cacheVars, pointVars,
                   ratioVars, raceVars,
                   overlayVars, pathVars>>

\* main, lines 221-224: fetch_and_process_map_data.  apply_shift raises on
\* an invalid specifier; a failed graph fetch raises RuntimeError; a failed
\* feature fetch yields None and the call goes on
FetchAndProcessMapData ==
    /\ pc = "fetch"
    /\ LET shifted == apply_shift(geo_coords.v.lat, geo_coords.v.lon, args.shift)
       IN
       IF shifted.err # ""
       THEN /\ Exit(1, "ValueError: " \o shifted.err)
            /\ UNCHANGED <<work, fetch_log, processed_data, point_coords>>
       ELSE
         /\ point_coords' = Some([lat |-> shifted.lat, lon |-> shifted.lon])
         /\ \E graph \in {"ok", "failed"} :
               IF graph = "failed"
               THEN /\ Exit(1, "RuntimeError: Failed to retrieve street network data.")
                    /\ work' = [work EXCEPT !.osm_fetch = @ + 1]
                    /\ fetch_log' = [fetch_log EXCEPT !["graph"] = "failed"]
                    /\ UNCHANGED processed_data
               ELSE \E outcome \in [FeatureSteps -> {"ok", "failed"}] :
                       /\ fetch_log' = [s \in DOMAIN fetch_log |->
                                          IF s = "graph" THEN "ok" ELSE outcome[s]]
                       /\ work' = [work EXCEPT !.osm_fetch = @ + 4,
                                               !.projection = @ + 1]
                       /\ processed_data' =
                             Some(process_map_data(
                                     fetch_features(outcome["water"], WorldWater),
                                     fetch_features(outcome["parks"], WorldParks),
                                     fetch_features(outcome["railways"], WorldRailways),
                                     figsize))
                       /\ pc' = "render"
                       /\ UNCHANGED <<errors, exit_status>>
    /\ UNCHANGED <<args, theme_files, themes_to_process, theme_i, generated_files,
                   geo_coords>>
    /\ UNCHANGED <<cropVars, roadVars, railVars, renderVars, cacheVars,
                   ratioVars, raceVars,
                   overlayVars, pathVars>>

\* Faulty variant: the session is rebuilt, with the theme's own canvas,
\* before each render
RenderThemeRebuilding ==
    /\ pc = "render"
    /\ theme_i < Len(themes_to_process)
    /\ LET theme_name == themes_to_process[theme_i + 1]
           th == load_theme(theme_name, theme_files)
       IN  /\ theme' = th
           /\ processed_data' =
                 Some(process_map_data(None, None, None, <<R(base_size), R(base_size)>>))
           /\ work' = [work EXCEPT !.osm_fetch = @ + 4, !.projection = @ + 1]
           /\ generated_files' = Append(generated_files, theme_name)
           /\ theme_i' = theme_i + 1
           /\ UNCHANGED <<pc, errors, exit_status, ax, svg>>
    /\ UNCHANGED <<args, theme_files, fetch_log, themes_to_process>>
    /\ UNCHANGED <<G_edges, road_types, edge_i, edge_colors, edge_widths>>
    /\ UNCHANGED <<water_polys_proj, parks_polys_proj>>
    /\ UNCHANGED <<cropVars, railVars, cacheVars, pointVars, ratioVars,
                   raceVars,
                   overlayVars, pathVars>>

\* main, lines 232-256: one iteration of the loop over themes_to_process;
\* an exception leaves the loop for the handler of lines 268-272
RenderTheme ==
    /\ pc = "render"
    /\ theme_i < Len(themes_to_process)
    /\ LET theme_name == themes_to_process[theme_i + 1]
           th == load_theme(theme_name, theme_files)
           pd == processed_data.v
       IN  /\ theme' = th
           /\ IF render_fails(args.format, pd, th)
              THEN /\ Exit(1, "KeyError")
                   /\ UNCHANGED <<ax, svg, generated_files, theme_i>>
              ELSE /\ IF args.format = "svg-layered"
                      THEN /\ svg' = Some(render_svg_poster_from_processed_data(
                                             pd.water_polys_proj, pd.parks_polys_proj,
                                             pd.G_proj.edges, pd.normal_rail_proj,
                                             pd.subway_lines_proj, th))
                           /\ UNCHANGED ax
                      ELSE /\ ax' = Some(render_poster_from_processed_data(
                                            pd.water_polys_proj, pd.parks_polys_proj,
                                            pd.G_proj.edges, pd.normal_rail_proj,
                                            pd.subway_lines_proj, th))
                           /\ UNCHANGED svg
                   /\ generated_files' = Append(generated_files, theme_name)
                   /\ theme_i' = theme_i + 1
                   /\ UNCHANGED <<pc, errors, exit_status>>
    /\ UNCHANGED <<args, theme_files, work, fetch_log, processed_data,
                   themes_to_process>>
    /\ UNCHANGED <<G_edges, road_types, edge_i, edge_colors, edge_widths>>
    /\ UNCHANGED <<water_polys_proj, parks_polys_proj>>
    /\ UNCHANGED <<cropVars, railVars, cacheVars, pointVars, ratioVars,
                   raceVars,
                   overlayVars, pathVars>>

\* main, lines 258-266: the summary; generated_files[0] of an empty batch
\* raises IndexError
Finish ==
    /\ pc = "render"
    /\ theme_i = Len(themes_to_process)
    /\ IF generated_files = <<>> THEN Exit(1, "IndexError") ELSE Exit(0, "")
    /\ UNCHANGED <<args, theme_files, work, fetch_log, processed_data,
                   themes_to_process, theme_i, generated_files>>
    /\ UNCHANGED <<cropVars, roadVars, railVars, renderVars, cacheVars,
                   pointVars, ratioVars, raceVars,
                   overlayVars, pathVars>>

NextMain ==
    \/ ValidateArguments
    \/ Geocode
    \/ ParseAspectRatio
    \/ FetchAndProcessMapData
    \/ RenderTheme
    \/ Finish

SpecMain == InitMain /\ [][NextMain]_vars

----------------------------------------------------------------------------
(* Properties of one invocation (SpecMain) *)

Rendered(theme_name) ==
    \E k \in 1..Len(generated_files) : generated_files[k] = theme_name

\* C15: the session is computed once and never changes afterwards:
\* fetch_and_process_map_data (one graph projection, one crop window) has run
\* exactly once before the first render, and no step of the render loop
\* changes any field of processed_data.
C15_SessionComputedOnce ==
    /\ [](/\ work.projection <= 1
          /\ generated_files # <<>> => (work.projection = 1 /\ processed_data.some))
    /\ [][pc = "render" => processed_data' = processed_data]_vars

\* two themes rendered from the one session
C15_Witness ==
    /\ Len(generated_files) >= 2
    /\ processed_data.some
    /\ work.projection = 1

\* whether loading and rendering the theme on the session fails by itself
FailsByItself(theme_name) ==
    render_fails(args.format, processed_data.v, load_theme(theme_name, theme_files))

\* C16: in a batch, a theme that fails to load or render does not abort its
\* siblings: when the run has ended, every theme of the batch that does not
\* fail by itself has been rendered.
C16_SiblingThemesStillRendered ==
    (pc = "exit" /\ processed_data.some) =>
        \A k \in 1..Len(themes_to_process) :
           ~FailsByItself(themes_to_process[k]) => Rendered(themes_to_process[k])

\* C17: session construction is all-or-nothing: a session exists, and a
\* poster is rendered from it, only if none of the four fetch steps failed.
C17_SessionAllOrNothing ==
    (processed_data.some \/ generated_files # <<>>) =>
        \A s \in DOMAIN fetch_log : fetch_log[s] = "ok"

\* the command line or a theme file of the batch is invalid
InputError ==
    \/ ~args.ratio.some
    \/ args.shift = "invalid"
    \/ IF args.theme = "all"
       THEN \E n \in ThemeNames : theme_files[n] = "incomplete"
       ELSE theme_files[args.theme] = "incomplete"

\* C18: with an invalid aspect ratio, an invalid shift specifier or a theme
\* file lacking a required key, no geocoding request, no OSM fetch and no
\* graph projection is ever performed.
C18_InputErrorsBeforeWork ==
    InputError => work = NoWork

\* C20: a theme whose file is missing is never a hard failure: load_theme
\* gives the built-in fallback with every required key, and the run asked
\* for such a theme is not ended with an error for it.
C20_MissingThemeFallsBack ==
    /\ \A n \in ThemeNames :
          theme_files[n] = "absent" =>
             RequiredKeys \subseteq DOMAIN load_theme(n, theme_files)
    /\ (args.theme # "all" /\ theme_files[args.theme] = "absent") =>
          \A k \in 1..Len(errors) : errors[k] # "Theme not found"

\* whether a point is a WGS-84 position
InRange(p) == -90 <= p.lat /\ p.lat <= 90 /\ -180 <= p.lon /\ p.lon <= 180

\* C21: every point that reaches the fetch stage or the coordinate readout,
\* whether geocoded, supplied with --lat/--lon or shifted, satisfies
\* -90 <= lat <= 90 and -180 <= lon <= 180.
C21_PointsValidated ==
    point_coords.some => InRange(point_coords.v)

C29_ExitZeroOneFilePerTheme ==
    (/\ pc = "exit"
     /\ processed_data.some
     /\ \A k \in 1..Len(themes_to_process) : ~FailsByItself(themes_to_process[k]))
    => /\ exit_status.some /\ exit_status.v = 0
       /\ Len(generated_files) = Len(themes_to_process)

----------------------------------------------------------------------------
(* cache.cache_get / cache_set and the four caching lookups
   (osm_data.fetch_graph, osm_data.fetch_features, geocoding.get_coordinates,
   geocoding.get_state_province).  A cache file is absent, holds a pickled
   object, or is corrupt (opened for writing but not completely written).
   A pickled object is a value Some(v) or Python's None. *)

MaxValue == 2       \* values a provider can answer with are 1..MaxValue

Values == 1..MaxValue
AbsentFile == [state |-> "absent", v |-> None]
StoredFile(obj) == [state |-> "stored", v |-> obj]
CorruptFile == [state |-> "corrupt", v |-> None]

\* cache_get: None for a missing file, else pickle.load of the file, which
\* raises on a file that is not a complete pickle
cache_get(file) ==
    [raised |-> file.state = "corrupt",
     value |-> IF file.state = "stored" THEN file.v ELSE None]

\* where a cache write can fail: creating the city directory (line 105, via
\* get_city_cache_dir), opening the file, or pickle.dump with a PickleError,
\* an OSError, or an exception of another class (MemoryError, TypeError, ..)
WriteFailures == {"none", "mkdir", "open", "dump_pickle", "dump_os", "dump_other"}

\* cache_set: the file afterwards and the exception that leaves the function
cache_set(file, obj, failure) ==
    CASE failure = "none" -> [file |-> StoredFile(obj), raised |-> "none"]
      [] failure = "mkdir" -> [file |-> file, raised |-> "OSError"]
      [] failure = "open" -> [file |-> file, raised |-> "CacheError"]
      [] failure = "dump_pickle" -> [file |-> CorruptFile, raised |-> "CacheError"]
      [] failure = "dump_os" -> [file |-> CorruptFile, raised |-> "CacheError"]
      [] failure = "dump_other" -> [file |-> CorruptFile, raised |-> "Exception"]

Return(file, value) == [file |-> file, kind |-> "return", value |-> value]
Raise(file) == [file |-> file, kind |-> "raise", value |-> None]

\* fetch_graph: cache_get outside the try; the provider call and cache_set
\* inside "except Exception: return None", cache_set inside "except CacheError".
\* provider is None when the provider call raised, else Some(object)
fetch_graph(file, provider, failure) ==
    LET cached == cache_get(file)
    IN  IF cached.raised THEN Raise(file)
        ELSE IF cached.value.some THEN Return(file, cached.value)
        ELSE IF ~provider.some THEN Return(file, None)
        ELSE LET written == cache_set(file, provider.v, failure)
             IN  IF written.raised \in {"none", "CacheError"}
                 THEN Return(written.file, provider.v)
                 ELSE Return(written.file, None)

\* fetch_features: the same structure as fetch_graph
fetch_features_cached(file, provider, failure) ==
    LET cached == cache_get(file)
    IN  IF cached.raised THEN Raise(file)
        ELSE IF cached.value.some THEN Return(file, cached.value)
        ELSE IF ~provider.some THEN Return(file, None)
        ELSE LET written == cache_set(file, provider.v, failure)
             IN  IF written.raised \in {"none", "CacheError"}
                 THEN Return(written.file, provider.v)
                 ELSE Return(written.file, None)

\* get_coordinates: raises ValueError when nothing is found; only CacheError
\* is caught around cache_set
get_coordinates(file, provider, failure) ==
    LET cached == cache_get(file)
    IN  IF cached.raised THEN Raise(file)
        ELSE IF cached.value.some THEN Return(file, cached.value)
        ELSE IF ~provider.some THEN Raise(file)
        ELSE LET written == cache_set(file, provider.v, failure)
             IN  IF written.raised \in {"none", "CacheError"}
                 THEN Return(written.file, provider.v)
                 ELSE Raise(written.file)

\* get_state_province: returns None when nothing is found; only CacheError
\* is caught around cache_set.  provider is None when no location is found,
\* else Some(state_province), where state_province may be None
get_state_province(file, provider, failure) ==
    LET cached == cache_get(file)
    IN  IF cached.raised THEN Raise(file)
        ELSE IF cached.value.some THEN Return(file, cached.value)
        ELSE IF ~provider.some THEN Return(file, None)
        ELSE LET written == cache_set(file, provider.v, failure)
             IN  IF written.raised \in {"none", "CacheError"}
                 THEN Return(written.file, provider.v)
                 ELSE Raise(written.file)

----------------------------------------------------------------------------
(* Cache specification: any sequence of the four lookups on one city's
   cache directory, the provider and the file system answering freely *)

CacheKeys == {"graph", "features", "coords", "province"}

InitCache ==
    /\ pc = "cache"
    /\ cache = [k \in CacheKeys |-> AbsentFile]
    /\ last_call = None
    /\ IdleCrop
    /\ IdleRoads
    /\ IdleRail
    /\ IdleRender
    /\ IdleMain
    /\ IdlePoint
    /\ IdleRatio
    /\ IdleRace
    /\ IdleOverlay
    /\ IdlePaths

\* the objects a provider can answer with: a graph, a feature table and a
\* coordinate tuple are never None, a state/province may be
Objects(key) ==
    {Some(v) : v \in Values} \cup (IF key = "province" THEN {None} ELSE {})

\* whether the lookup asks its provider: cache_get returned None
Asked(file) == ~cache_get(file).raised /\ ~cache_get(file).value.some

\* what the provider and the file system can answer to a lookup: the
\* provider is asked only on a cache miss, the write happens only after an answer
Answers(key, file) ==
    IF ~Asked(file) THEN {<<None, "none">>}
    ELSE {<<None, "none">>} \cup
         {<<Some(obj), failure>> : obj \in Objects(key), failure \in WriteFailures}

\* the bookkeeping common to the four lookups
Lookup(key, provider, failure, outcome) ==
    /\ cache' = [cache EXCEPT ![key] = outcome.file]
    /\ last_call' = Some([key |-> key,
                          asked |-> Asked(cache[key]),
                          provider |-> provider,
                          failure |-> failure,
                          kind |-> outcome.kind,
                          value |-> outcome.value])
    /\ UNCHANGED pc
    /\ UNCHANGED <<cropVars, roadVars, railVars, renderVars, mainVars,
                   pointVars, ratioVars, raceVars,
                   overlayVars, pathVars>>

FetchGraph ==
    /\ pc = "cache"
    /\ \E a \in Answers("graph", cache["graph"]) :
          Lookup("graph", a[1], a[2], fetch_graph(cache["graph"], a[1], a[2]))

FetchFeatures ==
    /\ pc = "cache"
    /\ \E a \in Answers("features", cache["features"]) :
          Lookup("features", a[1], a[2],
                 fetch_features_cached(cache["features"], a[1], a[2]))

GetCoordinates ==
    /\ pc = "cache"
    /\ \E a \in Answers("coords", cache["coords"]) :
          Lookup("coords", a[1], a[2],
                 get_coordinates(cache["coords"], a[1], a[2]))

GetStateProvince ==
    /\ pc = "cache"
    /\ \E a \in Answers("province", cache["province"]) :
          Lookup("province", a[1], a[2],
                 get_state_province(cache["province"], a[1], a[2]))

NextCache == FetchGraph \/ FetchFeatures \/ GetCoordinates \/ GetStateProvince

SpecCache == InitCache /\ [][NextCache]_vars

----------------------------------------------------------------------------
(* Properties of the caching lookups (SpecCache) *)

\* the latest call asked its provider, got an answer, and failed to store it
WriteFailed ==
    /\ last_call.some
    /\ last_call.v.provider.some
    /\ last_call.v.failure # "none"

\* C19: a failure while writing a cache entry is never fatal: whenever the
\* underlying lookup succeeded, each of the four lookups returns the freshly
\* computed value although the cache write failed.
C19_CacheWriteFailureNotFatal ==
    WriteFailed =>
        /\ last_call.v.kind = "return"
        /\ last_call.v.value = last_call.v.provider.v

GeoKeys == {"coords", "province"}

\* the latest call asked the geocoder, found the place and stored the result
GeocodedAndStored(k) ==
    /\ last_call.some
    /\ last_call.v.key = k
    /\ last_call.v.asked
    /\ last_call.v.provider.some
    /\ last_call.v.failure = "none"

\* C27: geocoding results are cached by key: a successful geocoder lookup
\* whose cache write succeeded leaves an entry holding the value returned, the
\* entry stays as it is, and every call that finds the entry returns its
\* value without asking the geocoder, a state/province of None included.
C27_GeocodingResultsCached ==
    /\ [](\A k \in GeoKeys :
            GeocodedAndStored(k) => cache[k] = StoredFile(last_call.v.value))
    /\ [][\A k \in GeoKeys :
            cache[k].state = "stored" =>
               /\ cache'[k] = cache[k]
               /\ last_call'.v.key = k =>
                     /\ ~last_call'.v.asked
                     /\ last_call'.v.value = cache[k].v]_vars

----------------------------------------------------------------------------
(* Concurrent invocations: MaxInvocations runs of the program for the same
   place call fetch_graph with the same cache key.  There is no lock, so the
   steps of cache_get and cache_set of different runs interleave: cache_set
   opens the file for writing, which creates or truncates it, and the entry
   is a complete pickle only when pickle.dump has finished and the file is
   closed.  Failures of the write itself are the subject of SpecCache. *)

MaxInvocations == 2

Invocations == 1..MaxInvocations

Invocation(at, G, result) == [at |-> at, G |-> G, result |-> result]

InitRace ==
    /\ pc = "race"
    /\ cache \in [{"graph"} -> {AbsentFile} \cup {StoredFile(Some(v)) : v \in Values}]
    /\ last_call = None
    /\ invocations = [p \in Invocations |-> Invocation("cache_get", None, None)]
    /\ IdleCrop
    /\ IdleRoads
    /\ IdleRail
    /\ IdleRender
    /\ IdleMain
    /\ IdlePoint
    /\ IdleRatio
    /\ IdleOverlay
    /\ IdlePaths

\* what a step of invocation p leaves alone
RaceFrame ==
    /\ UNCHANGED <<pc, last_call>>
    /\ UNCHANGED <<cropVars, roadVars, railVars, renderVars, mainVars, pointVars,
                   ratioVars, overlayVars, pathVars>>

\* fetch_graph, lines 33-37, with cache_get: the exception of pickle.load
\* leaves fetch_graph, whose try block starts later
CacheGet(p) ==
    /\ invocations[p].at = "cache_get"
    /\ LET cached == cache_get(cache["graph"])
       IN  invocations' =
             [invocations EXCEPT ![p] =
                IF cached.raised THEN Invocation("raised", None, None)
                ELSE IF cached.value.some
                THEN Invocation("returned", None, cached.value)
                ELSE Invocation("graph_from_point", None, None)]
    /\ UNCHANGED cache
    /\ RaceFrame

\* fetch_graph, lines 39-42 and 48-50: the download, or None when it raised
GraphFromPoint(p) ==
    /\ invocations[p].at = "graph_from_point"
    /\ \/ \E v \in Values :
            invocations' = [invocations EXCEPT ![p] =
                               Invocation("cache_set", Some(v), None)]
       \/ invocations' = [invocations EXCEPT ![p] =
                             Invocation("returned_none", None, None)]
    /\ UNCHANGED cache
    /\ RaceFrame

\* cache_set, line 109: path.open("wb") creates or truncates the file
CacheSetOpen(p) ==
    /\ invocations[p].at = "cache_set"
    /\ cache' = [cache EXCEPT !["graph"] = CorruptFile]
    /\ invocations' = [invocations EXCEPT ![p].at = "pickle_dump"]
    /\ RaceFrame

\* cache_set, line 110, the end of the with block, and fetch_graph, line 47
CacheSetDump(p) ==
    /\ invocations[p].at = "pickle_dump"
    /\ cache' = [cache EXCEPT !["graph"] = StoredFile(invocations[p].G)]
    /\ invocations' = [invocations EXCEPT ![p] =
                          Invocation("returned", invocations[p].G, invocations[p].G)]
    /\ RaceFrame

NextRace ==
    \E p \in Invocations :
       \/ CacheGet(p)
       \/ GraphFromPoint(p)
       \/ CacheSetOpen(p)
       \/ CacheSetDump(p)

SpecRace == InitRace /\ [][NextRace]_vars

\* C28: concurrent invocations on the same cache key only recompute: none
\* of them fails in cache_get on an entry another one has created but not
\* finished writing, and each one that returns after a successful download
\* or a cache hit returns a complete value.
C28_RaceOnlyRecomputes ==
    \A p \in DOMAIN invocations :
       /\ invocations[p].at # "raised"
       /\ invocations[p].at = "returned" => invocations[p].result.some

----------------------------------------------------------------------------
(* utils.parse_aspect_ratio on the whole argument.  The string is modelled
   by its parts between colons; a part is a float literal (an integer
   here) or text that float() refuses. *)

\* utils.parse_aspect_ratio, lines 61-83
parse_aspect_ratio_str(parts) ==
    IF Len(parts) # 2 THEN [err |-> TRUE, size |-> <<R(0), R(0)>>]
    ELSE IF ~parts[1].some \/ ~parts[2].some
    THEN [err |-> TRUE, size |-> <<R(0), R(0)>>]
    ELSE parse_aspect_ratio(parts[1].v, parts[2].v)

RatioParts == {None} \cup {Some(n) : n \in -MaxRatio..MaxRatio}
RatioStrings ==
    {<<a>> : a \in RatioParts}
    \cup {<<a, b>> : a \in RatioParts, b \in RatioParts}
    \cup {<<a, b, c>> : a \in RatioParts, b \in RatioParts, c \in {None, Some(1)}}

InitRatio ==
    /\ pc = "ratio_given"
    /\ ratio_str \in RatioStrings
    /\ ratio_result = None
    /\ IdleCrop
    /\ IdleRoads
    /\ IdleRail
    /\ IdleRender
    /\ IdleMain
    /\ IdleCache
    /\ IdlePoint
    /\ IdleRace
    /\ IdleOverlay
    /\ IdlePaths

ParseAspectRatioString ==
    /\ pc = "ratio_given"
    /\ ratio_result' = Some(parse_aspect_ratio_str(ratio_str))
    /\ pc' = "ratio_parsed"
    /\ UNCHANGED ratio_str
    /\ UNCHANGED <<cropVars, roadVars, railVars, renderVars, mainVars, cacheVars,
                   pointVars, raceVars,
                   overlayVars, pathVars>>

NextRatio == ParseAspectRatioString

SpecRatio == InitRatio /\ [][NextRatio]_vars

\* C26: parse_aspect_ratio raises ValueError or returns (width, height)
\* with both values strictly positive, the larger one equal to 16 and
\* width / height equal to the requested w / h; a zero or negative
\* component is rejected.
C26_RatioRejectedOrValid ==
    (pc = "ratio_parsed" /\ ~ratio_result.v.err) =>
        LET width == ratio_result.v.size[1]
            height == ratio_result.v.size[2]
            w == ratio_str[1].v
            h == ratio_str[2].v
        IN  /\ w > 0 /\ h > 0
            /\ RLt(R(0), width) /\ RLt(R(0), height)
            /\ (IF RLe(height, width) THEN width ELSE height) = R(base_size)
            /\ RDiv(width, height) = Norm(w, h)

----------------------------------------------------------------------------
(* The overlay both emitters put on the map: two fade bands and the title.
   rendering.create_gradient_fade and the typography of
   render_poster_from_processed_data; svg_renderer.add_defs_section, the
   gradient rects of render_svg_poster_from_processed_data and the font
   sizes of add_text_layer. *)

MaxNameLen == 16        \* city names have 1..MaxNameLen characters

base_font_size == 60
min_font_size == 24
base_width == 4800

RMax(a, b) == IF RLt(a, b) THEN b ELSE a

\* rendering.render_poster_from_processed_data, lines 302-308
adjusted_font_size(n) ==
    IF n > 10
    THEN RMax(RMul(R(base_font_size), Norm(10, n)), R(min_font_size))
    ELSE R(base_font_size)

\* svg_renderer.add_text_layer, lines 385-397: the city font size
font_city(width, n) ==
    LET scale_factor == Norm(width, base_width)
        font == PyInt(RMul(R(base_font_size), scale_factor))
        scaled == PyInt(RMul(R(font), Norm(10, n)))
        least == PyInt(RMul(R(min_font_size), scale_factor))
    IN  IF n > 10
        THEN (IF scaled < least THEN least ELSE scaled)
        ELSE font

\* Faulty variant: both fades are opaque at their lower edge
create_gradient_fade_same_ramp(ylim, color, location) ==
    LET extent == IF location = "bottom" THEN <<R(0), <<1, 4>>>>
                  ELSE <<<<3, 4>>, R(1)>>
        y_range == RSub(ylim[2], ylim[1])
    IN  [color |-> color,
         alpha |-> <<1, 0>>,
         y_bottom |-> RAdd(ylim[1], RMul(y_range, extent[1])),
         y_top |-> RAdd(ylim[1], RMul(y_range, extent[2]))]

\* rendering.create_gradient_fade: the image drawn with origin='lower';
\* alpha is the opacity of its first (lowest) and last (highest) row
create_gradient_fade(ylim, color, location) ==
    LET extent == IF location = "bottom" THEN <<R(0), <<1, 4>>>>
                  ELSE <<<<3, 4>>, R(1)>>
        y_range == RSub(ylim[2], ylim[1])
    IN  [color |-> color,
         alpha |-> IF location = "bottom" THEN <<1, 0>> ELSE <<0, 1>>,
         y_bottom |-> RAdd(ylim[1], RMul(y_range, extent[1])),
         y_top |-> RAdd(ylim[1], RMul(y_range, extent[2]))]

\* svg_renderer.add_defs_section, lines 80-116: two vertical gradients
\* (x1 = x2 = 0%, y1 = 0%, y2 = 100%), offset 0% at the top of the filled box
linear_gradients(th) ==
    <<[id |-> "fadeGradientBottom",
       stops |-> <<[offset |-> 0, color |-> th.gradient_color, opacity |-> 0],
                   [offset |-> 100, color |-> th.gradient_color, opacity |-> 1]>>],
      [id |-> "fadeGradientTop",
       stops |-> <<[offset |-> 0, color |-> th.gradient_color, opacity |-> 1],
                   [offset |-> 100, color |-> th.gradient_color, opacity |-> 0]>>]>>

\* render_svg_poster_from_processed_data, lines 547-564; y grows downwards
gradient_rects(width, height) ==
    <<[id |-> "gradient-bottom", y |-> RMul(R(height), <<3, 4>>),
       height |-> RMul(R(height), <<1, 4>>), fill |-> "fadeGradientBottom"],
      [id |-> "gradient-top", y |-> R(0),
       height |-> RMul(R(height), <<1, 4>>), fill |-> "fadeGradientTop"]>>

\* the limits the axes can have
Windows == {<<R(w[1]), R(w[2])>> : w \in {v \in Coords \X Coords : v[1] < v[2]}}

InitOverlay ==
    /\ pc = "overlay"
    /\ city_char_count \in 1..MaxNameLen
    /\ \E r \in Ratios : figsize = parse_aspect_ratio(r[1], r[2]).size
    /\ \E w \in Windows : crop = [status |-> "ok", xlim |-> w, ylim |-> w]
    /\ theme \in Themes
    /\ raster_overlay = None
    /\ svg_overlay = None
    /\ np_scalars = FALSE
    /\ G_nodes = <<>>
    /\ svg_in = <<>>
    /\ svg_out = NoSvg
    /\ G_edges = <<>>
    /\ road_types = None
    /\ edge_i = 0
    /\ edge_colors = None
    /\ edge_widths = None
    /\ IdleRail
    /\ IdleRender
    /\ IdleMain
    /\ IdleCache
    /\ IdlePoint
    /\ IdleRatio
    /\ IdleRace
    /\ IdlePaths

\* rendering.render_poster_from_processed_data, lines 296-308
RasterOverlay ==
    /\ pc = "overlay"
    /\ raster_overlay' =
          Some([fades |-> <<create_gradient_fade(crop.ylim, theme.gradient_color, "bottom"),
                           create_gradient_fade(crop.ylim, theme.gradient_color, "top")>>,
                font_size |-> adjusted_font_size(city_char_count)])
    /\ pc' = "raster_overlaid"
    /\ UNCHANGED <<city_char_count, svg_overlay>>
    /\ UNCHANGED <<cropVars, roadVars, railVars, renderVars, mainVars, cacheVars,
                   pointVars, ratioVars, raceVars, pathVars>>

\* render_svg_poster_from_processed_data, lines 501-511 and 540-567
SvgOverlay ==
    /\ pc = "raster_overlaid"
    /\ LET width == CanvasWidth(figsize)
           height == CanvasHeight(figsize)
       IN  svg_overlay' =
             Some([width |-> width,
                   height |-> height,
                   defs |-> linear_gradients(theme),
                   rects |-> gradient_rects(width, height),
                   font_size |-> font_city(width, city_char_count)])
    /\ pc' = "svg_overlaid"
    /\ UNCHANGED <<city_char_count, raster_overlay>>
    /\ UNCHANGED <<cropVars, roadVars, railVars, renderVars, mainVars, cacheVars,
                   pointVars, ratioVars, raceVars, pathVars>>

NextOverlay == RasterOverlay \/ SvgOverlay

SpecOverlay == InitOverlay /\ [][NextOverlay]_vars

----------------------------------------------------------------------------
(* Properties of the overlay (SpecOverlay) *)

\* the size the title is to have for a base size and a name of n characters
ClaimedTitleSize(base, n) ==
    IF n <= 10 THEN base
    ELSE RMax(RMul(base, Norm(10, n)), RMul(base, <<2, 5>>))

\* the base size the vector emitter uses at the canvas width
SvgBaseSize(width) == R(PyInt(RMul(R(base_font_size), Norm(width, base_width))))

\* C22: in both emitters the title font size for a city name of n
\* characters is base_size for n <= 10 and max(base_size * 10 / n,
\* 0.4 * base_size) for n > 10, base_size being the size the emitter uses at
\* the canvas size; n is the length of the raw city name.
C22_TitleFontSize ==
    /\ raster_overlay.some =>
          raster_overlay.v.font_size
             = ClaimedTitleSize(R(base_font_size), city_char_count)
    /\ svg_overlay.some =>
          R(svg_overlay.v.font_size)
             = ClaimedTitleSize(SvgBaseSize(svg_overlay.v.width), city_char_count)

\* a fade band as fractions of the canvas height measured from the top,
\* with its opacity at its upper and at its lower edge
Band(from, to, colors, alpha_top, alpha_bottom) ==
    [from |-> from, to |-> to, colors |-> colors,
     alpha_top |-> alpha_top, alpha_bottom |-> alpha_bottom]

RasterBands ==
    LET ylim == crop.ylim
        y_range == RSub(ylim[2], ylim[1])
        fades == raster_overlay.v.fades
    IN  {Band(RDiv(RSub(ylim[2], fades[i].y_top), y_range),
              RDiv(RSub(ylim[2], fades[i].y_bottom), y_range),
              {fades[i].color}, fades[i].alpha[2], fades[i].alpha[1]) :
           i \in 1..Len(fades)}

SvgBands ==
    LET o == svg_overlay.v
        gradient(r) == CHOOSE k \in 1..Len(o.defs) : o.defs[k].id = r.fill
        stop(r, offset) ==
            CHOOSE j \in 1..Len(o.defs[gradient(r)].stops) :
               o.defs[gradient(r)].stops[j].offset = offset
    IN  {Band(RDiv(o.rects[i].y, R(o.height)),
              RDiv(RAdd(o.rects[i].y, o.rects[i].height), R(o.height)),
              {o.defs[gradient(o.rects[i])].stops[j].color :
                  j \in 1..Len(o.defs[gradient(o.rects[i])].stops)},
              o.defs[gradient(o.rects[i])].stops[stop(o.rects[i], 0)].opacity,
              o.defs[gradient(o.rects[i])].stops[stop(o.rects[i], 100)].opacity) :
           i \in 1..Len(o.rects)}

ClaimedBands ==
    {Band(R(0), <<1, 4>>, {theme.gradient_color}, 1, 0),
     Band(<<3, 4>>, R(1), {theme.gradient_color}, 0, 1)}

\* C23: both emitters produce exactly two fade bands, the top quarter and
\* the bottom quarter of the canvas height, each fully opaque at the canvas
\* edge and fully transparent at its inner edge, in the theme's
\* gradient_color only.
C23_FadeBands ==
    /\ raster_overlay.some =>
          /\ Len(raster_overlay.v.fades) = 2
          /\ RasterBands = ClaimedBands
    /\ svg_overlay.some =>
          /\ Len(svg_overlay.v.rects) = 2
          /\ SvgBands = ClaimedBands

\* both emitters have drawn their fades
C23_Witness ==
    /\ pc = "svg_overlaid"
    /\ raster_overlay.some
    /\ svg_overlay.some
    /\ Cardinality(SvgBands) = 2
    /\ Cardinality(RasterBands) = 2

----------------------------------------------------------------------------
(* The paths of the vector emitter with their coordinates: add_polygon_layer,
   add_linestring_layer and add_roads_by_type, each path written by
   transform_coordinates and coords_to_path_data *)

Pt(x, y) == [x |-> R(x), y |-> R(y)]

\* A shapely part: the coords of a line, or the coords of a polygon's
\* exterior ring together with its interior rings
Shape(coords, interiors) == [coords |-> coords, interiors |-> interiors]
Geometry(geom_type, geoms) == [geom_type |-> geom_type, geoms |-> geoms]

OuterRings ==
    {<<Pt(0, 0), Pt(4, 0), Pt(4, 4), Pt(0, 0)>>,
     <<Pt(0, 0), Pt(4, 0), Pt(4, 4), Pt(0, 4), Pt(0, 0)>>}
InnerRing == <<Pt(1, 1), Pt(2, 1), Pt(2, 2), Pt(1, 1)>>
Polygons == {Shape(r, h) : r \in OuterRings, h \in {<<>>, <<InnerRing>>}}
Lines == {<<Pt(0, 0), Pt(4, 4)>>, <<Pt(1, 3), Pt(2, 1), Pt(3, 3)>>}
LineStrings == {Shape(l, <<>>) : l \in Lines}

\* the geometries of a table filtered to the types (single, multi)
Geometries(single, multi, shapes) ==
    {Geometry(single, <<p>>) : p \in shapes} \cup
    {Geometry(multi, g) : g \in UNION {[1..k -> shapes] : k \in 1..MaxParts}}

\* feature tables; the index label of a row is its position
GeometryTables(geoms) == UNION {[1..n -> geoms] : n \in 0..MaxFeatures}

\* the node positions of G_proj and its edges, with or without 'geometry'
PathNodes == <<Pt(0, 0), Pt(4, 2)>>
PathEdges ==
    [u : 1..Len(PathNodes), v : 1..Len(PathNodes),
     highway : {Str("motorway"), Str("residential")},
     geometry : {None} \cup {Some(l) : l \in Lines}]
PathEdgeSeqs == UNION {[1..n -> PathEdges] : n \in 1..MaxEdges}

PathsIn(kind, features, edges) ==
    [kind |-> kind, features |-> features, edges |-> edges]

InitPaths ==
    /\ pc = "paths"
    /\ \/ \E gdf \in GeometryTables(Geometries("Polygon", "MultiPolygon", Polygons)) :
            path_in = PathsIn("polygons", gdf, <<>>)
       \/ \E gdf \in GeometryTables(Geometries("LineString", "MultiLineString",
                                               LineStrings)) :
            path_in = PathsIn("lines", gdf, <<>>)
       \/ \E edges \in PathEdgeSeqs : path_in = PathsIn("roads", <<>>, edges)
    /\ path_out = <<>>
    /\ theme \in Themes
    /\ G_edges = <<>>
    /\ road_types = None
    /\ edge_i = 0
    /\ edge_colors = None
    /\ edge_widths = None
    /\ np_scalars = FALSE
    /\ G_nodes = <<>>
    /\ figsize = <<R(1), R(1)>>
    /\ crop = [status |-> "ok", xlim |-> <<R(0), R(4)>>, ylim |-> <<R(0), R(4)>>]
    /\ svg_in = <<>>
    /\ svg_out = NoSvg
    /\ IdleRail
    /\ IdleRender
    /\ IdleMain
    /\ IdleCache
    /\ IdlePoint
    /\ IdleRatio
    /\ IdleRace
    /\ IdleOverlay

\* f"{v:.2f}": the decimal with two places nearest to v, in hundredths
Fmt2(v) ==
    LET q == 100 * v[1]
        f == q \div v[2]
        rem == q - f * v[2]
    IN  IF 2 * rem > v[2] \/ (2 * rem = v[2] /\ f % 2 = 1) THEN f + 1 ELSE f

\* coords_to_path_data: a move to the first point, a line to each other one
coords_to_path_data(coords) ==
    [i \in 1..Len(coords) |->
        [op |-> IF i = 1 THEN "M" ELSE "L",
         x |-> Fmt2(coords[i].x), y |-> Fmt2(coords[i].y)]]

\* ET.SubElement(layer_group, 'path', {'id': ..., 'd': path_data}), with the
\* array handed to transform_coordinates
Path(id, coords, xlim, ylim, width, height) ==
    [id |-> id, coords |-> coords,
     d |-> coords_to_path_data(
              transform_coordinates(coords, xlim, ylim, width, height, FALSE).pts)]

Group(id, paths) == [id |-> id, paths |-> paths]

\* Faulty variant: the interior rings follow the exterior ring
exterior_and_interior_coords(polygon) == polygon.coords \o Flatten(polygon.interiors)

\* np.array(polygon.exterior.coords)
exterior_coords(polygon) == polygon.coords

\* add_polygon_layer, the body of the loop over gdf.iterrows(), with coords
polygon_feature_paths(layer_id, idx, geom, xlim, ylim, width, height) ==
    IF geom.geom_type = "MultiPolygon"
    THEN [k \in 1..Len(geom.geoms) |->
            Path(layer_id \o "-" \o ToString(idx) \o "-" \o ToString(k - 1),
                 exterior_coords(geom.geoms[k]), xlim, ylim, width, height)]
    ELSE IF geom.geom_type = "Polygon"
    THEN <<Path(layer_id \o "-" \o ToString(idx),
                exterior_coords(geom.geoms[1]), xlim, ylim, width, height)>>
    ELSE <<>>

\* add_linestring_layer, the body of the loop over gdf.iterrows(), with coords
linestring_feature_paths(layer_id, idx, geom, xlim, ylim, width, height) ==
    IF geom.geom_type = "MultiLineString"
    THEN [k \in 1..Len(geom.geoms) |->
            Path(layer_id \o "-" \o ToString(idx) \o "-" \o ToString(k - 1),
                 geom.geoms[k].coords, xlim, ylim, width, height)]
    ELSE IF geom.geom_type = "LineString"
    THEN <<Path(layer_id \o "-" \o ToString(idx),
                geom.geoms[1].coords, xlim, ylim, width, height)>>
    ELSE <<>>

\* add_roads_by_type: the geometry of an edge, or the segment between its nodes
edge_geometry(nodes, data) ==
    IF data.geometry.some THEN data.geometry.v
    ELSE <<nodes[data.u], nodes[data.v]>>

\* add_roads_by_type, the loop over G_proj.edges, collecting the geometries
RECURSIVE group_road_geometries(_, _, _, _)
group_road_geometries(rt, nodes, edges, i) ==
    IF i > Len(edges) THEN rt
    ELSE group_road_geometries(
             classify_road(rt, svg_highway(edges[i]), edge_geometry(nodes, edges[i])),
             nodes, edges, i + 1)

\* add_roads_by_type, one iteration of the loop over road_types.items(), with coords
road_type_paths(road_type, data, xlim, ylim, width, height) ==
    IF data.edges = <<>> THEN <<>>
    ELSE <<Group("roads-" \o road_type,
                 [idx \in 1..Len(data.edges) |->
                     Path("road-" \o road_type \o "-" \o ToString(idx - 1),
                          data.edges[idx], xlim, ylim, width, height)])>>

PathsFrame ==
    /\ UNCHANGED <<path_in, cropVars, roadVars, railVars, renderVars, mainVars,
                   cacheVars, pointVars, ratioVars, raceVars, overlayVars>>

AddPolygonLayer ==
    /\ pc = "paths"
    /\ path_in.kind = "polygons"
    /\ LET gdf == path_in.features
       IN  path_out' =
             IF gdf = <<>> THEN <<>>
             ELSE <<Group("water",
                      Flatten([k \in 1..Len(gdf) |->
                         polygon_feature_paths("water", k, gdf[k], crop.xlim, crop.ylim,
                             CanvasWidth(figsize), CanvasHeight(figsize))]))>>
    /\ pc' = "paths_written"
    /\ PathsFrame

AddLinestringLayer ==
    /\ pc = "paths"
    /\ path_in.kind = "lines"
    /\ LET gdf == path_in.features
       IN  path_out' =
             IF gdf = <<>> THEN <<>>
             ELSE <<Group("railways",
                      Flatten([k \in 1..Len(gdf) |->
                         linestring_feature_paths("railways", k, gdf[k], crop.xlim,
                             crop.ylim, CanvasWidth(figsize), CanvasHeight(figsize))]))>>
    /\ pc' = "paths_written"
    /\ PathsFrame

AddRoadsByType ==
    /\ pc = "paths"
    /\ path_in.kind = "roads"
    /\ LET rt == group_road_geometries(new_road_types(theme), PathNodes,
                                       path_in.edges, 1)
       IN  path_out' =
             Flatten([k \in 1..Len(Tiers) |->
                        road_type_paths(Tiers[k], rt[Tiers[k]], crop.xlim, crop.ylim,
                            CanvasWidth(figsize), CanvasHeight(figsize))])
    /\ pc' = "paths_written"
    /\ PathsFrame

NextPaths == AddPolygonLayer \/ AddLinestringLayer \/ AddRoadsByType

SpecPaths == InitPaths /\ [][NextPaths]_vars

----------------------------------------------------------------------------
(* Properties of the emitted paths (SpecPaths) *)

\* the coordinate arrays of all paths, in document order
WrittenArrays == Flatten([g \in 1..Len(path_out) |->
                            [k \in 1..Len(path_out[g].paths) |->
                                path_out[g].paths[k].coords]])
WrittenData == Flatten([g \in 1..Len(path_out) |->
                          [k \in 1..Len(path_out[g].paths) |->
                              path_out[g].paths[k].d]])

\* one array per part of each feature: the exterior ring of a polygon, the
\* coords of a line
PartArrays(gdf) ==
    Flatten([f \in 1..Len(gdf) |->
               [k \in 1..Len(gdf[f].geoms) |-> gdf[f].geoms[k].coords]])

\* the edges of a tier, in graph order
TierEdges(edges, road_type) ==
    SelectSeq(edges,
              LAMBDA e : new_road_types(theme)[road_type].edges # 
                         classify_road(new_road_types(theme), svg_highway(e), 0)[road_type].edges)

\* one array per edge, tier by tier: the edge's geometry, or its two
\* endpoint positions from u to v
EdgeArrays(edges) ==
    Flatten([t \in 1..Len(Tiers) |->
               [k \in 1..Len(TierEdges(edges, Tiers[t])) |->
                   LET e == TierEdges(edges, Tiers[t])[k]
                   IN  IF e.geometry.some THEN e.geometry.v
                       ELSE <<PathNodes[e.u], PathNodes[e.v]>>]])

\* C25: the vector emitter writes one path per geometry part and nothing
\* else: one path from the exterior ring of a Polygon, k paths from the
\* exterior rings of a MultiPolygon of k polygons, one path for a
\* LineString, k for a MultiLineString of k lines, and for a road edge
\* without geometry one path of exactly two points, the positions of its
\* endpoint nodes in edge direction; every path has one command per point.
C25_OnePathPerPart ==
    pc = "paths_written" =>
        /\ WrittenArrays = IF path_in.kind = "roads" THEN EdgeArrays(path_in.edges)
                           ELSE PartArrays(path_in.features)
        /\ \A i \in 1..Len(WrittenData) :
              /\ Len(WrittenData[i]) = Len(WrittenArrays[i])
              /\ \A j \in 1..Len(WrittenData[i]) :
                    WrittenData[i][j].op = (IF j = 1 THEN "M" ELSE "L")

\* a polygon with a hole in a multi-part feature has been written
C25_Witness ==
    /\ pc = "paths_written"
    /\ path_in.kind = "polygons"
    /\ \E f \in 1..Len(path_in.features) :
          /\ path_in.features[f].geom_type = "MultiPolygon"
          /\ Len(path_in.features[f].geoms) = MaxParts
          /\ \E k \in 1..MaxParts : path_in.features[f].geoms[k].interiors # <<>>
    /\ Len(WrittenArrays) >= MaxParts

====
